---- MODULE Spec2Model ----
(***************************************************************************)
(* pihole-sqlite-exporter: the scrape pass (scraper.py), the published     *)
(* snapshot and scrape status (metrics.py), the background loop and the    *)
(* HTTP handler (http_server.py), as one state machine.                    *)
(*                                                                         *)
(* Two threads exist: "main" runs the initial pass, starts the background  *)
(* thread and then serves HTTP requests one at a time (HTTPServer is not   *)
(* threaded); "bg" runs _scrape_loop.  scrape_and_update is cut into one   *)
(* action per statement that touches shared state (the lock, the registry, *)
(* the recorded result, the snapshot), so that the two threads interleave  *)
(* where the Python code can be preempted between calls.  The loaders of   *)
(* the catalog run while the lock is held and are one action; so are the   *)
(* two gauge writes of the finally block.                                  *)
(*                                                                         *)
(* Registry values are abstracted to their provenance.  The series the    *)
(* try block writes are one region, described by the thread whose pass    *)
(* cleared the dynamic series last (by) and by how far that pass got      *)
(* (stage); the two gauges the finally block writes carry the thread      *)
(* whose pass set them, or "old" once that thread has started a later     *)
(* pass.  Samples that all carry the same thread are from one pass.       *)
(*                                                                         *)
(* The wall clock is the variable now: the latest time any thread has      *)
(* observed.  A read of the clock returns any value from now on.           *)
(*                                                                         *)
(* Components are also run on their own, each with its state in the       *)
(* record unit: the handler for any request and any callables              *)
(* (SpecHandler), one pass after the other at the level of the values it   *)
(* reads from the source and sets in the registry, the appliance writing   *)
(* to the source between any two queries (SpecPass), the                   *)
(* RequestRateTracker of request_rate.py (SpecRate, and SpecRestart with   *)
(* an appliance that starts again), _scrape_loop with a stop event         *)
(* (SpecLoop, SpecLoopFair), the lock of scrape_and_update (SpecLock),     *)
(* the clock reads of a pass (SpecWindow), the connections of a pass        *)
(* (SpecConn), the top lists under a small top_n (SpecTop), PayloadCache    *)
(* (SpecCache), main statement by statement (SpecMain, SpecMainFair), and   *)
(* the functions sqlite_ro (SpecDb) and variance (SpecVariance) over their  *)
(* arguments.                                                               *)
(***************************************************************************)
EXTENDS Integers, Sequences, FiniteSets, TLC

\* ---- bounds ------------------------------------------------------------
\* calls of scrape_and_update in one behaviour
MaxCalls == 3
\* last value of the wall clock (seconds)
MaxTime == 4
\* SETTINGS.scrape_interval (any integer >= 1, settings.py _get_int)
ScrapeInterval == 1

\* ---- static structure --------------------------------------------------
Threads == {"main", "bg"}

Free == "free"

Paths == {"/metrics", "/", "/healthz", "/readyz", "/nope"}

\* the query catalog run inside the primary connection, in call order
Catalog ==
  << "_load_counters", "_load_lifetime_destinations", "_load_clients_ever_seen",
     "_load_queries_today", "_load_unique_counts", "_load_query_types",
     "_load_reply_types", "_load_forwarded_cached", "_load_forward_destinations",
     "_load_synthetic_destinations", "_load_top_lists" >>

\* the registry in serialization order: the region the try block writes,
\* then the two gauges of the finally block
SeriesOrder == << "aggregation", "pihole_scrape_duration_seconds", "pihole_scrape_success" >>

VARIABLES
  pc,               \* position of each thread
  caller,           \* who called scrape_and_update: "main", "loop", "get_snapshot"
  SCRAPE_LOCK,      \* holder of scraper._SCRAPE_LOCK, or Free
  success,          \* local `success` of each thread's scrape_and_update
  scrape_timestamp, \* local `scrape_timestamp` of each thread's finally block
  registry,         \* METRICS.registry: region -> provenance
  snapshot,         \* the published snapshot: [payload, timestamp]
  scrape_status,    \* the recorded scrape result: [success, last_success]
  now,              \* wall clock
  loop_start,       \* local `start` of _scrape_loop
  wake_at,          \* end of the current sleep of _scrape_loop
  response,         \* the response the last step sent (NoResponse: none)
  path,             \* path of the request being served
  acquired,         \* whether each thread's call got past the lock
  lastPass,         \* ghost: the thread whose pass acquired the lock last
  lastOutcome,      \* ghost: outcome of that pass
  okPass,           \* ghost: how far any successful pass got
  numCalls,         \* ghost: calls of scrape_and_update so far
  unit              \* the state of the component a specification runs on its own

vars ==
  << pc, caller, SCRAPE_LOCK, success, scrape_timestamp, registry, snapshot,
     scrape_status, now, loop_start, wake_at, response, path, acquired, lastPass,
     lastOutcome, okPass, numCalls >>

\* A component that is run on its own (the handler, the pass on its data, the
\* rate tracker) keeps its state in the record unit; the specification of
\* the whole program leaves unit alone.

\* the handler (SpecHandler): the request with what its callables give, and
\* what do_GET did with the request
request == unit.request
sent == unit.sent

\* the pass on its data (SpecPass): the primary source (FTL database), the
\* registry by value, the position and the locals of the pass, the snapshot
\* published last, the passes started and the writes of the appliance so far
source == unit.source
METRICS == unit.METRICS
ppc == unit.ppc
frame == unit.frame
published == unit.published
passes == unit.passes
upstream == unit.upstream

\* the rate tracker (SpecRate): the RequestRateTracker, the gauge
\* pihole_request_rate, the database it reads, and (ghost) the last call of
\* update
tracker == unit.tracker
request_rate == unit.request_rate
ftl == unit.ftl
last_update == unit.last_update

\* ---- registry and snapshot --------------------------------------------
NoPayload == << >>

\* the registry after Metrics.__init__: nothing has been set
EmptyRegistry ==
  [aggregation |-> [by |-> "none", stage |-> "unset"],
   pihole_scrape_duration_seconds |-> [by |-> "none"],
   pihole_scrape_success |-> [by |-> "none", val |-> 0]]

\* what a gauge of the finally block holds once thread t has started a
\* later pass
Older(sample, t) == IF sample.by = t THEN [sample EXCEPT !.by = "old"] ELSE sample

\* Metrics.clear_dynamic_series run by a pass of thread t: the dynamic
\* series lose their samples; whatever else the region holds is the data of
\* an older pass
clear_dynamic_series(reg, t) ==
  [aggregation |-> [by |-> t, stage |-> "cleared"],
   pihole_scrape_duration_seconds |-> Older(reg.pihole_scrape_duration_seconds, t),
   pihole_scrape_success |-> Older(reg.pihole_scrape_success, t)]

\* a loader of the catalog has set some of the region's series
set_catalog_gauges(reg) == [reg EXCEPT !.aggregation.stage = "partial"]

\* _load_domains_blocked, the last sub-step, has set its gauge
set_domains_blocked(reg) == [reg EXCEPT !.aggregation.stage = "complete"]

\* prometheus_client.generate_latest: the samples of every series, in order
generate_latest(reg) ==
  [i \in DOMAIN SeriesOrder |-> [name |-> SeriesOrder[i], sample |-> reg[SeriesOrder[i]]]]

\* Metrics.update_snapshot: payload and timestamp replaced together
update_snapshot(payload, timestamp) == [payload |-> payload, timestamp |-> timestamp]

\* Metrics.record_scrape_result
record_scrape_result(status, ok, timestamp) ==
  [success |-> IF ok THEN 1 ELSE 0,
   last_success |-> IF ok THEN timestamp ELSE status.last_success]

\* nothing was sent
NoResponse ==
  [path |-> "none", status |-> 0, ctype |-> "none", body |-> "", refresh |-> "none"]

\* ---- scrape_and_update -------------------------------------------------
Max(a, b) == IF a >= b THEN a ELSE b

\* the values a read of the wall clock can return
Clock == now .. MaxTime

\* an acquire that does not look at the holder
acquire_unguarded(lock) == TRUE

\* _SCRAPE_LOCK.acquire(blocking=False): succeeds iff nobody holds the lock
acquire(lock) == lock = Free

\* a skip that raises instead of returning
skip_raises == "raised"

\* lines 263-271: the lock is held; "Scrape skipped" is logged and the call
\* returns
skip == "returned"

\* a result that is reported as a success whatever happened
scrape_result_always(s) == TRUE

\* the argument success == 1.0 of record_scrape_result
scrape_result(s) == s = 1

\* whether loader i has already set a gauge when one of its queries raises:
\* _load_counters sets pihole_status before its first query, the loaders
\* with several queries set gauges in between, the others set them last
PartialWrites(i) ==
  CASE Catalog[i] = "_load_counters" -> {TRUE}
    [] Catalog[i] \in {"_load_unique_counts", "_load_forward_destinations",
                       "_load_synthetic_destinations", "_load_top_lists"} -> {FALSE, TRUE}
    [] OTHER -> {FALSE}

\* the registry after loaders 1 .. n of the catalog have run
run_catalog(reg, n) == IF n >= 1 THEN set_catalog_gauges(reg) ELSE reg

Call(t, who) ==
  /\ numCalls < MaxCalls
  /\ numCalls' = numCalls + 1
  /\ pc' = [pc EXCEPT ![t] = "scrape_and_update"]
  /\ caller' = [caller EXCEPT ![t] = who]

\* lines 262-285: try the lock; skip and return when it is held, else enter
scrape_enter(t) ==
  /\ pc[t] = "scrape_and_update"
  /\ IF acquire(SCRAPE_LOCK)
       THEN /\ SCRAPE_LOCK' = t
            /\ success' = [success EXCEPT ![t] = 0]
            /\ acquired' = [acquired EXCEPT ![t] = TRUE]
            /\ lastPass' = t
            /\ lastOutcome' = "running"
            /\ pc' = [pc EXCEPT ![t] = "clear_dynamic_series"]
       ELSE /\ pc' = [pc EXCEPT ![t] = skip]
            /\ UNCHANGED << SCRAPE_LOCK, success, acquired, lastPass, lastOutcome >>
  /\ response' = NoResponse
  /\ UNCHANGED << caller, scrape_timestamp, registry, snapshot, scrape_status, now,
                  loop_start, wake_at, path, okPass, numCalls >>
  /\ UNCHANGED unit

\* lines 288-289
scrape_clear(t) ==
  /\ pc[t] = "clear_dynamic_series"
  /\ registry' = clear_dynamic_series(registry, t)
  /\ pc' = [pc EXCEPT ![t] = "sqlite_ro"]
  /\ response' = NoResponse
  /\ UNCHANGED << caller, SCRAPE_LOCK, success, scrape_timestamp, snapshot,
                  scrape_status, now, loop_start, wake_at, path, acquired, lastPass,
                  lastOutcome, okPass, numCalls >>
  /\ UNCHANGED unit

\* an exception leaves the try block: lines 307-315 log and re-raise, the
\* finally block runs next
Raise(t) ==
  /\ lastOutcome' = "failed"
  /\ pc' = [pc EXCEPT ![t] = "release"]

\* lines 291-303: open the primary source and run the loaders of the catalog
\* in order on its connection; sqlite_ro raises (i = 0), or a query of
\* loader i raises, or all loaders complete
scrape_catalog(t) ==
  /\ pc[t] = "sqlite_ro"
  /\ \/ /\ registry' = run_catalog(registry, Len(Catalog))
        /\ pc' = [pc EXCEPT ![t] = "_load_domains_blocked"]
        /\ UNCHANGED lastOutcome
     \/ /\ UNCHANGED registry
        /\ Raise(t)
     \/ /\ \E i \in DOMAIN Catalog : \E w \in PartialWrites(i) :
             registry' = run_catalog(registry, IF w THEN i ELSE i - 1)
        /\ Raise(t)
  /\ response' = NoResponse
  /\ UNCHANGED << caller, SCRAPE_LOCK, success, scrape_timestamp, snapshot,
                  scrape_status, now, loop_start, wake_at, path, acquired, lastPass,
                  okPass, numCalls >>
  /\ UNCHANGED unit

\* lines 305-306: the domains-blocked lookup never raises; success = 1.0
scrape_domains(t) ==
  /\ pc[t] = "_load_domains_blocked"
  /\ registry' = set_domains_blocked(registry)
  /\ success' = [success EXCEPT ![t] = 1]
  /\ lastOutcome' = "ok"
  /\ okPass' = IF okPass = "none" THEN "succeeded" ELSE okPass
  /\ pc' = [pc EXCEPT ![t] = "release"]
  /\ response' = NoResponse
  /\ UNCHANGED << caller, SCRAPE_LOCK, scrape_timestamp, snapshot, scrape_status,
                  now, loop_start, wake_at, path, acquired, lastPass, numCalls >>
  /\ UNCHANGED unit

\* line 317, first statement of the finally block
scrape_release(t) ==
  /\ pc[t] = "release"
  /\ SCRAPE_LOCK' = Free
  /\ pc' = [pc EXCEPT ![t] = "set_gauges"]
  /\ response' = NoResponse
  /\ UNCHANGED << caller, success, scrape_timestamp, registry, snapshot,
                  scrape_status, now, loop_start, wake_at, path, acquired, lastPass,
                  lastOutcome, okPass, numCalls >>
  /\ UNCHANGED unit

\* lines 318-321: read the clock, set the duration and success gauges
scrape_set_gauges(t) ==
  /\ pc[t] = "set_gauges"
  /\ \E c \in Clock :
       /\ now' = c
       /\ scrape_timestamp' = [scrape_timestamp EXCEPT ![t] = c]
  /\ registry' =
       [registry EXCEPT !.pihole_scrape_duration_seconds = [by |-> t],
                        !.pihole_scrape_success = [by |-> t, val |-> success[t]]]
  /\ pc' = [pc EXCEPT ![t] = "record_scrape_result"]
  /\ response' = NoResponse
  /\ UNCHANGED << caller, SCRAPE_LOCK, success, snapshot, scrape_status, loop_start,
                  wake_at, path, acquired, lastPass, lastOutcome, okPass, numCalls >>
  /\ UNCHANGED unit

\* line 322
scrape_record(t) ==
  /\ pc[t] = "record_scrape_result"
  /\ scrape_status' =
       record_scrape_result(scrape_status, scrape_result(success[t]), scrape_timestamp[t])
  /\ pc' = [pc EXCEPT ![t] = "update_snapshot"]
  /\ response' = NoResponse
  /\ UNCHANGED << caller, SCRAPE_LOCK, success, scrape_timestamp, registry, snapshot,
                  now, loop_start, wake_at, path, acquired, lastPass, lastOutcome,
                  okPass, numCalls >>
  /\ UNCHANGED unit

\* lines 323-338: serialize and publish (a failure of either is logged and
\* swallowed); the function then returns, or the pending exception propagates
scrape_update_snapshot(t) ==
  /\ pc[t] = "update_snapshot"
  /\ \/ snapshot' = update_snapshot(generate_latest(registry), scrape_timestamp[t])
     \/ UNCHANGED snapshot
  /\ pc' = [pc EXCEPT ![t] = IF success[t] = 1 THEN "returned" ELSE "raised"]
  /\ scrape_timestamp' = [scrape_timestamp EXCEPT ![t] = 0]
  /\ okPass' = IF success[t] = 1 THEN "returned" ELSE okPass
  /\ response' = NoResponse
  /\ UNCHANGED << caller, SCRAPE_LOCK, success, registry, scrape_status, now,
                  loop_start, wake_at, path, acquired, lastPass, lastOutcome,
                  numCalls >>
  /\ UNCHANGED unit

\* ---- main and the background loop --------------------------------------
\* main(): the initial pass
main_initial ==
  /\ pc["main"] = "main"
  /\ Call("main", "main")
  /\ response' = NoResponse
  /\ UNCHANGED << SCRAPE_LOCK, success, scrape_timestamp, registry, snapshot,
                  scrape_status, now, loop_start, wake_at, path, acquired, lastPass,
                  lastOutcome, okPass >>
  /\ UNCHANGED unit

\* main(): the initial pass returned, or raised and "Initial scrape failed"
\* was logged
main_after_initial ==
  /\ pc["main"] \in {"returned", "raised"}
  /\ caller["main"] = "main"
  /\ pc' = [pc EXCEPT !["main"] = "start_background_scrape"]
  /\ acquired' = [acquired EXCEPT !["main"] = FALSE]
  /\ success' = [success EXCEPT !["main"] = 0]
  /\ caller' = [caller EXCEPT !["main"] = "none"]
  /\ response' = NoResponse
  /\ UNCHANGED << SCRAPE_LOCK, scrape_timestamp, registry, snapshot,
                  scrape_status, now, loop_start, wake_at, path, lastPass,
                  lastOutcome, okPass, numCalls >>
  /\ UNCHANGED unit

\* start_background_scrape, then http_server.serve
start_background_scrape ==
  /\ pc["main"] = "start_background_scrape"
  /\ pc' = [pc EXCEPT !["main"] = "serve", !["bg"] = "_scrape_loop"]
  /\ response' = NoResponse
  /\ UNCHANGED << caller, SCRAPE_LOCK, success, scrape_timestamp, registry, snapshot,
                  scrape_status, now, loop_start, wake_at, path, acquired, lastPass,
                  lastOutcome, okPass, numCalls >>
  /\ UNCHANGED unit

\* _scrape_loop lines 348-352: start = time_fn(); scrape_and_update()
loop_scrape ==
  /\ pc["bg"] = "_scrape_loop"
  /\ \E c \in Clock :
       /\ now' = c
       /\ loop_start' = c
  /\ Call("bg", "loop")
  /\ response' = NoResponse
  /\ UNCHANGED << SCRAPE_LOCK, success, scrape_timestamp, registry, snapshot,
                  scrape_status, wake_at, path, acquired, lastPass, lastOutcome,
                  okPass >>
  /\ UNCHANGED unit

\* what is left of the interval
sleep_remaining(interval, elapsed) == interval - elapsed

\* the sleep of _scrape_loop line 356
sleep_seconds(interval, elapsed) == Max(1, interval - elapsed)

\* _scrape_loop lines 353-356: an exception is logged and swallowed; sleep
loop_sleep ==
  /\ pc["bg"] \in {"returned", "raised"}
  /\ caller["bg"] = "loop"
  /\ \E c \in Clock :
       /\ now' = c
       /\ wake_at' = c + sleep_seconds(Max(1, ScrapeInterval), c - loop_start)
  /\ loop_start' = 0
  /\ pc' = [pc EXCEPT !["bg"] = "sleep"]
  /\ acquired' = [acquired EXCEPT !["bg"] = FALSE]
  /\ success' = [success EXCEPT !["bg"] = 0]
  /\ caller' = [caller EXCEPT !["bg"] = "none"]
  /\ response' = NoResponse
  /\ UNCHANGED << SCRAPE_LOCK, scrape_timestamp, registry, snapshot,
                  scrape_status, path, lastPass, lastOutcome, okPass, numCalls >>
  /\ UNCHANGED unit

\* sleep_fn returns, not before the time asked for
loop_wake ==
  /\ pc["bg"] = "sleep"
  /\ wake_at <= MaxTime
  /\ \E c \in Clock :
       /\ c >= wake_at
       /\ now' = c
  /\ wake_at' = 0
  /\ pc' = [pc EXCEPT !["bg"] = "_scrape_loop"]
  /\ response' = NoResponse
  /\ UNCHANGED << caller, SCRAPE_LOCK, success, scrape_timestamp, registry, snapshot,
                  scrape_status, loop_start, path, acquired, lastPass, lastOutcome,
                  okPass, numCalls >>
  /\ UNCHANGED unit

\* ---- the serving layer ------------------------------------------------
\* exporter._health_status at time c
get_health(c) ==
  IF scrape_status.success = 0 THEN [ok |-> FALSE, msg |-> "last scrape failed"]
  ELSE IF c - snapshot.timestamp > 2 * ScrapeInterval
    THEN [ok |-> FALSE, msg |-> "snapshot too old"]
    ELSE [ok |-> TRUE, msg |-> "ok"]

\* exporter._ready_status
get_ready ==
  IF scrape_status.last_success > 0 THEN [ok |-> TRUE, msg |-> "ready"]
  ELSE [ok |-> FALSE, msg |-> "waiting for first successful scrape"]

\* do_GET lines 14-17
NotFound(p) ==
  [path |-> p, status |-> 404, ctype |-> "none", body |-> "", refresh |-> "none"]

\* do_GET lines 19-28
ProbeResponse(p, st) ==
  [path |-> p, status |-> IF st.ok THEN 200 ELSE 503, ctype |-> "text/plain",
   body |-> st.msg, refresh |-> "none"]

\* a handler that answers "unavailable" although a payload exists
MetricsResponse_unavailable(p, snap, refresh) ==
  [path |-> p, status |-> 503, ctype |-> "text/plain",
   body |-> "metrics snapshot unavailable", refresh |-> refresh]

\* do_GET lines 39-52
MetricsResponse(p, snap, refresh) ==
  IF snap.payload = NoPayload
    THEN [path |-> p, status |-> 503, ctype |-> "text/plain",
          body |-> "metrics snapshot unavailable", refresh |-> refresh]
    ELSE [path |-> p, status |-> 200, ctype |-> "CONTENT_TYPE_LATEST",
          body |-> snap.payload, refresh |-> refresh]

\* a handler that reports a raised refresh as "unavailable"
ErrorResponse_unavailable(p, refresh) ==
  [path |-> p, status |-> 503, ctype |-> "text/plain",
   body |-> "metrics snapshot unavailable", refresh |-> refresh]

\* do_GET lines 61-68
ErrorResponse(p, refresh) ==
  [path |-> p, status |-> 500, ctype |-> "text/plain", body |-> "scrape failed",
   refresh |-> refresh]

\* the snapshot getter refreshes only when nothing was published yet
needs_refresh(snap) == snap.payload = NoPayload

\* do_GET for a request that is answered without a refresh
do_GET(p) ==
  /\ pc["main"] = "serve"
  /\ \/ /\ p \notin {"/metrics", "/", "/healthz", "/readyz"}
        /\ response' = NotFound(p)
        /\ UNCHANGED now
     \/ /\ p = "/healthz"
        /\ \E c \in Clock :
             /\ now' = c
             /\ response' = ProbeResponse(p, get_health(c))
     \/ /\ p = "/readyz"
        /\ response' = ProbeResponse(p, get_ready)
        /\ UNCHANGED now
     \/ /\ p \in {"/metrics", "/"}
        /\ ~needs_refresh(snapshot)
        /\ response' = MetricsResponse(p, snapshot, "none")
        /\ UNCHANGED now
  /\ UNCHANGED << pc, caller, SCRAPE_LOCK, success, scrape_timestamp, registry,
                  snapshot, scrape_status, loop_start, wake_at, path, acquired,
                  lastPass, lastOutcome, okPass, numCalls >>
  /\ UNCHANGED unit

\* do_GET line 38 at cold start: the getter calls scrape_and_update
get_snapshot_refresh(p) ==
  /\ pc["main"] = "serve"
  /\ p \in {"/metrics", "/"}
  /\ needs_refresh(snapshot)
  /\ path' = p
  /\ Call("main", "get_snapshot")
  /\ response' = NoResponse
  /\ UNCHANGED << SCRAPE_LOCK, success, scrape_timestamp, registry, snapshot,
                  scrape_status, now, loop_start, wake_at, acquired, lastPass,
                  lastOutcome, okPass >>
  /\ UNCHANGED unit

\* the refresh returned (it ran, or it was skipped): do_GET lines 39-58
get_snapshot_return ==
  /\ pc["main"] = "returned"
  /\ caller["main"] = "get_snapshot"
  /\ response' =
       MetricsResponse(path, snapshot, IF acquired["main"] THEN "ran" ELSE "skipped")
  /\ pc' = [pc EXCEPT !["main"] = "serve"]
  /\ acquired' = [acquired EXCEPT !["main"] = FALSE]
  /\ success' = [success EXCEPT !["main"] = 0]
  /\ caller' = [caller EXCEPT !["main"] = "none"]
  /\ path' = "none"
  /\ UNCHANGED << SCRAPE_LOCK, scrape_timestamp, registry, snapshot,
                  scrape_status, now, loop_start, wake_at, lastPass, lastOutcome,
                  okPass, numCalls >>
  /\ UNCHANGED unit

\* the refresh raised: do_GET lines 61-68
get_snapshot_raise ==
  /\ pc["main"] = "raised"
  /\ caller["main"] = "get_snapshot"
  /\ response' = ErrorResponse(path, "failed")
  /\ pc' = [pc EXCEPT !["main"] = "serve"]
  /\ acquired' = [acquired EXCEPT !["main"] = FALSE]
  /\ success' = [success EXCEPT !["main"] = 0]
  /\ caller' = [caller EXCEPT !["main"] = "none"]
  /\ path' = "none"
  /\ UNCHANGED << SCRAPE_LOCK, scrape_timestamp, registry, snapshot,
                  scrape_status, now, loop_start, wake_at, lastPass, lastOutcome,
                  okPass, numCalls >>
  /\ UNCHANGED unit

\* ---- the handler on its own ---------------------------------------------
\* make_handler(get_snapshot, get_health, get_ready) takes the three
\* callables as arguments.  Here do_GET is run as the unit tests run it: the
\* request path, what each callable gives, and whether the client has gone
\* when the response is written, are inputs.

\* longest payload (bytes)
MaxPayload == 2

Bytes == {107, 111}

\* payloads of at most MaxPayload bytes, the empty one included
Payloads == UNION {[1 .. n -> Bytes] : n \in 0 .. MaxPayload}

\* what get_snapshot() gives: a snapshot, or an exception
SnapshotResults ==
  {[raises |-> TRUE, snapshot |-> update_snapshot(NoPayload, 0)]}
    \cup {[raises |-> FALSE, snapshot |-> update_snapshot(b, 1)] : b \in Payloads}

HealthResults ==
  {[ok |-> TRUE, msg |-> "ok"], [ok |-> FALSE, msg |-> "last scrape failed"],
   [ok |-> FALSE, msg |-> "snapshot too old"]}

ReadyResults ==
  {[ok |-> TRUE, msg |-> "ready"],
   [ok |-> FALSE, msg |-> "waiting for first successful scrape"]}

\* what the last write of a response raises: nothing, one of the two
\* exceptions of a client that has gone, or another exception (TypeError for
\* a payload that is not bytes, another OSError of the socket)
Disconnects == {"no", "BrokenPipeError", "ConnectionResetError", "Exception"}

Requests ==
  [path : Paths, get_snapshot : SnapshotResults, get_health : HealthResults,
   get_ready : ReadyResults, disconnect : Disconnects]

\* the Content-Length of a response that has no such header
NoHeader == -1

\* do_GET has not run on the request
Unsent ==
  [status |-> 0, ctype |-> "none", body |-> "", length |-> NoHeader, responses |-> 0,
   second |-> 0, get_snapshot_calls |-> 0, log |-> "none", do_GET |-> "none"]

\* a Content-Length that is always 0
content_length_zero(body) == 0

\* lines 25, 44, 50, 66: Content-Length is the length of the body
content_length(body) == Len(body)

\* how do_GET ends when a write to the socket raises BrokenPipeError or
\* ConnectionResetError.  The writes inside the try block (lines 42-52) are
\* caught at lines 59-60.  The writes of 404 (lines 15-16) and of the probes
\* (lines 22-27) are outside the try block, and the writes of the 500 response
\* (lines 64-68) are inside an except clause: from there the exception leaves
\* do_GET.  Any other exception raised inside the try block goes to the
\* except clause of line 61 ("except").
write(place, disconnect) ==
  IF disconnect = "no" THEN "returned"
  ELSE IF place # "try" THEN "raised"
  ELSE IF disconnect \in {"BrokenPipeError", "ConnectionResetError"} THEN "returned"
  ELSE "except"

\* what the handler logs: logger.exception at line 62, logger.debug at line 60
log(place, disconnect) ==
  IF place = "except" THEN "exception"
  ELSE IF place = "try" /\ write(place, disconnect) = "except" THEN "exception"
  ELSE IF place = "try" /\ disconnect # "no" THEN "debug"
  ELSE "none"

\* lines 61-68 after a response was begun in the try block: the status line
\* and the headers of the 500 response follow those already sent; status is
\* the status of the first response, second that of the one after it
except_Exception(first, resp) ==
  [first EXCEPT !.responses = 2, !.second = resp.status, !.do_GET = "returned"]

\* one response written: status line, headers and body of resp; 404 sends
\* no Content-Length
Send(resp, place, disconnect, calls) ==
  [status |-> resp.status, ctype |-> resp.ctype, body |-> resp.body,
   length |-> IF resp.status = 404 THEN NoHeader ELSE content_length(resp.body),
   responses |-> 1, second |-> 0, get_snapshot_calls |-> calls,
   log |-> log(place, disconnect), do_GET |-> write(place, disconnect)]

\* lines 30-68 for a getter that returns
Try(resp, path_, disconnect) ==
  IF write("try", disconnect) = "except"
    THEN except_Exception(Send(resp, "try", disconnect, 1), ErrorResponse(path_, "none"))
    ELSE Send(resp, "try", disconnect, 1)

\* Handler.do_GET, lines 13-68
Handler(req) ==
  IF req.path \notin {"/metrics", "/", "/healthz", "/readyz"}
    THEN Send(NotFound(req.path), "outside", req.disconnect, 0)
  ELSE IF req.path \in {"/healthz", "/readyz"}
    THEN Send(ProbeResponse(req.path, IF req.path = "/healthz" THEN req.get_health
                                                             ELSE req.get_ready),
              "outside", req.disconnect, 0)
  ELSE IF req.get_snapshot.raises
    THEN Send(ErrorResponse(req.path, "failed"), "except", req.disconnect, 1)
  ELSE Try(MetricsResponse(req.path, req.get_snapshot.snapshot, "none"), req.path,
           req.disconnect)

\* the server calls do_GET for the request
Handler_do_GET ==
  /\ sent = Unsent
  /\ unit' = [unit EXCEPT !.sent = Handler(request)]
  /\ UNCHANGED vars

\* the next request arrives
Handler_request ==
  /\ sent # Unsent
  /\ \E r \in Requests : unit' = [request |-> r, sent |-> Unsent]
  /\ UNCHANGED vars

\* ---- the pass on its data ------------------------------------------------
\* One pass of scrape_and_update at the level of the values it reads and
\* writes: the primary source (the FTL database) holds the counters table
\* and the rows of the queries table, the registry holds every sample.  The
\* aggregation section runs with the lock held, so passes follow each other
\* here; the upstream appliance writes to the source between any two queries
\* of a pass (each query is a read transaction of its own).

\* passes in one behaviour
MaxPasses == 2
\* writes of the upstream appliance in one behaviour
MaxUpstream == 2
\* SETTINGS.top_n
TopN == 10

\* reply_type IS NULL
NULL == -1

\* forward IS NULL
NoForward == "NULL"

Host == "host"

\* constants.BLOCKED_STATUSES
BLOCKED_STATUSES == {1, 4, 5, 6, 7, 8, 9, 10, 11, 15}

\* constants.QUERY_TYPE_MAP
QUERY_TYPE_MAP ==
  [c \in 1 .. 16 |->
     << "A", "AAAA", "ANY", "SRV", "SOA", "PTR", "TXT", "NAPTR", "MX", "DS", "RRSIG",
        "DNSKEY", "NS", "OTHER", "SVCB", "HTTPS" >>[c]]

\* constants.REPLY_TYPE_MAP
REPLY_TYPE_MAP ==
  [c \in 0 .. 13 |->
     << "unknown", "no_data", "nx_domain", "cname", "ip", "domain", "rr_name",
        "serv_fail", "refused", "not_imp", "other", "dnssec", "none", "blob" >>[c + 1]]

\* the rows the upstream appliance can insert into queries: a forwarded
\* one, one answered from the cache with a type code outside the static map
\* and no reply code, and a blocked one with a reply code outside the static
\* map.  The type code is an integer in every row (spec.md section 3: only
\* the reply code is nullable).
Rows ==
  {[status |-> 2, type |-> 1, reply_type |-> 3, forward |-> "1.1.1.1",
    domain |-> "example.com", client |-> "10.0.0.1"],
   [status |-> 3, type |-> 99, reply_type |-> NULL, forward |-> NoForward,
    domain |-> "cached.com", client |-> "10.0.0.2"],
   [status |-> 1, type |-> 2, reply_type |-> 99, forward |-> NoForward,
    domain |-> "ads.com", client |-> "10.0.0.1"]}

\* client_by_id: ip -> name
client_by_id == [ip \in {"10.0.0.1", "10.0.0.2"} |-> IF ip = "10.0.0.1" THEN "client-a" ELSE ""]

\* a labelled gauge with no sample
NoSamples == << >>

\* Gauge.labels(l).set(v)
Set(gauge, l, v) == [x \in DOMAIN gauge \cup {l} |-> IF x = l THEN v ELSE gauge[x]]

\* Gauge.labels(l).set(...) for every l of a query result
SetAll(gauge, result) ==
  [x \in DOMAIN gauge \cup DOMAIN result |-> IF x \in DOMAIN result THEN result[x] ELSE gauge[x]]

\* the series clear_dynamic_series clears
DynamicSeries ==
  {"pihole_top_ads", "pihole_top_queries", "pihole_top_sources",
   "pihole_forward_destinations", "pihole_forward_destinations_responsetime",
   "pihole_forward_destinations_responsevariance"}

\* the labelled gauges the loaders set
GaugeNames ==
  DynamicSeries \cup
  {"pihole_status", "pihole_clients_ever_seen", "pihole_dns_queries_today",
   "pihole_dns_queries_all_types", "pihole_ads_blocked_today",
   "pihole_ads_percentage_today", "pihole_unique_clients", "pihole_unique_domains",
   "pihole_querytypes", "pihole_reply", "pihole_queries_forwarded",
   "pihole_queries_cached", "pihole_domains_being_blocked"}

\* Metrics.__init__: the gauges have no samples, MetricsState() holds zeros
\* and a RequestRateTracker with no baseline, _forward_destinations_lifetime
\* is {}
NewMetrics ==
  [gauges |-> [g \in GaugeNames |-> NoSamples],
   state |-> [total_queries_lifetime |-> 0, blocked_queries_lifetime |-> 0,
              request_rate |-> [last_request_ts |-> NULL, last_request_total |-> NULL,
                                last_request_rowid |-> NULL]],
   forward_destinations_lifetime |-> NoSamples]

\* a clear that leaves the forward destinations alone
clear_top_lists_only(m) ==
  [m EXCEPT !.gauges =
     [g \in GaugeNames |->
        IF g \in {"pihole_top_ads", "pihole_top_queries", "pihole_top_sources"}
          THEN NoSamples ELSE m.gauges[g]]]

\* a clear that starts the registry over
clear_everything(m) == NewMetrics

\* Metrics.clear_dynamic_series on the samples themselves
clear_dynamic(m) ==
  [m EXCEPT !.gauges =
     [g \in GaugeNames |-> IF g \in DynamicSeries THEN NoSamples ELSE m.gauges[g]]]

\* Metrics.set_lifetime_totals
set_lifetime_totals(m, total, blocked) ==
  [m EXCEPT !.state.total_queries_lifetime = total,
            !.state.blocked_queries_lifetime = blocked]

\* SELECT COUNT(*) FROM queries WHERE ... : the rows of Q with a status in S
CountStatus(Q, S) == Cardinality({r \in Q : r.status \in S})

\* SELECT key, COUNT(*) ... GROUP BY key: key -> number of rows, for the
\* keys that have rows
GroupCount(Q, key(_)) ==
  [k \in {key(r) : r \in Q} |-> Cardinality({r \in Q : key(r) = k})]

\* a LIMIT without the ORDER BY: any n groups
limit_unordered(groups, n) ==
  IF Cardinality(DOMAIN groups) <= n THEN {groups}
  ELSE {[k \in S |-> groups[k]] : S \in {T \in SUBSET DOMAIN groups : Cardinality(T) = n}}

\* ORDER BY cnt DESC LIMIT n: the results the engine can give (ties are
\* broken by the engine)
Limit(groups, n) ==
  IF Cardinality(DOMAIN groups) <= n THEN {groups}
  ELSE {[k \in S |-> groups[k]] :
          S \in {T \in SUBSET DOMAIN groups :
                   /\ Cardinality(T) = n
                   /\ \A k \in T : \A j \in (DOMAIN groups) \ T : groups[k] >= groups[j]}}

row_type(r) == r.type
row_reply_type(r) == r.reply_type
row_forward(r) == r.forward
row_domain(r) == r.domain
row_source(r) ==
  << r.client, IF r.client \in DOMAIN client_by_id THEN client_by_id[r.client] ELSE "" >>

Forwarded(Q) == {r \in Q : r.status = 2 /\ r.forward # NoForward}
Blocked(Q) == {r \in Q : r.status \in BLOCKED_STATUSES}

\* the primary source as the appliance creates it, with the rows of
\* domain_by_id and of the supplementary source's gravity table
NewSource ==
  [counters |-> [total |-> 0, blocked |-> 0], queries |-> {},
   domain_by_id |-> 2, gravity |-> 4]

\* the locals of a pass, and what its queries returned
NewFrame ==
  [success |-> 0, total_queries_lifetime |-> 0, q_today |-> 0,
   gravity_readable |-> FALSE, ftl_readable |-> FALSE,
   types |-> NoSamples, replies |-> NoSamples, forwards |-> NoSamples,
   top_ads |-> NoSamples, top_queries |-> NoSamples, top_sources |-> NoSamples]

\* nothing was published
Unpublished == [exists |-> FALSE, success |-> 0, metrics |-> NewMetrics]

\* the sub-steps of the try block that query the primary source, in order;
\* _load_counters and _load_queries_today run two queries each and set their
\* gauges after the second
PassSteps ==
  << "_load_counters", "_load_counters:blocked", "_load_lifetime_destinations",
     "_load_clients_ever_seen", "_load_queries_today", "_load_queries_today:blocked",
     "_load_unique_counts", "_load_query_types", "_load_reply_types",
     "_load_forwarded_cached", "_load_forward_destinations",
     "_load_synthetic_destinations", "_load_top_lists" >>

StepIndex(step) == CHOOSE i \in DOMAIN PassSteps : PassSteps[i] = step

AfterStep(step) ==
  IF StepIndex(step) = Len(PassSteps) THEN "_load_domains_blocked"
  ELSE PassSteps[StepIndex(step) + 1]

SetGauge(m, g, l, v) == [m EXCEPT !.gauges[g] = Set(@, l, v)]

\* scraper.py lines 154-155 and 165-166: every code of the static map is
\* set, to counts.get(code, 0)
publish_codes(gauge, map, counts) ==
  SetAll(gauge, [n \in {map[k] : k \in DOMAIN map} |->
                   LET k == CHOOSE k \in DOMAIN map : map[k] = n
                   IN  IF k \in DOMAIN counts THEN counts[k] ELSE 0])

\* _load_query_types lines 151-153: counts_by_type after the rows
counts_by_type(rows) ==
  [k \in DOMAIN QUERY_TYPE_MAP \cup DOMAIN rows |-> IF k \in DOMAIN rows THEN rows[k] ELSE 0]

\* _load_reply_types lines 160-164: counts_by_reply after the rows, the row
\* of the NULL group skipped
counts_by_reply(rows) ==
  [k \in DOMAIN REPLY_TYPE_MAP \cup (DOMAIN rows \ {NULL}) |->
     IF k \in DOMAIN rows THEN rows[k] ELSE 0]

\* a percentage without the test of q_today
percentage_unguarded(b_today, q_today) == [num |-> b_today * 100, den |-> q_today]

\* pihole_ads_percentage_today, as a fraction
percentage(b_today, q_today) ==
  IF q_today > 0 THEN [num |-> b_today * 100, den |-> q_today] ELSE [num |-> 0, den |-> 1]

\* SETTINGS.enable_lifetime_dest_counters, fixed when the process starts
enable_lifetime_dest_counters == unit.enable_lifetime_dest_counters

\* a breakdown that is computed whatever the setting
lifetime_destinations_always(enabled, Q) ==
  SetAll(GroupCount(Forwarded(Q), row_forward),
         [d \in {"cache", "blocklist"} |->
            IF d = "cache" THEN CountStatus(Q, {3})
            ELSE CountStatus(Q, BLOCKED_STATUSES)])

\* _load_lifetime_destinations: the dict handed to
\* set_forward_destinations_lifetime
load_lifetime_destinations(enabled, Q) ==
  IF ~enabled THEN NoSamples
  ELSE SetAll(GroupCount(Forwarded(Q), row_forward),
              [d \in {"cache", "blocklist"} |->
                 IF d = "cache" THEN CountStatus(Q, {3})
                 ELSE CountStatus(Q, BLOCKED_STATUSES)])

\* the registry and the locals after one sub-step has queried the source src
\* (the possible outcomes: LIMIT breaks ties as the engine likes)
run_loader(step, m, fr, src) ==
  LET Q == src.queries
  IN
  CASE step = "_load_counters" ->
         {[metrics |-> SetGauge(m, "pihole_status", Host, 1),
           frame |-> [fr EXCEPT !.total_queries_lifetime = src.counters.total]]}
    [] step = "_load_counters:blocked" ->
         {[metrics |-> set_lifetime_totals(m, fr.total_queries_lifetime, src.counters.blocked),
           frame |-> fr]}
    [] step = "_load_lifetime_destinations" ->
         {[metrics |->
             [m EXCEPT !.forward_destinations_lifetime =
                load_lifetime_destinations(enable_lifetime_dest_counters, Q)],
           frame |-> fr]}
    [] step = "_load_clients_ever_seen" ->
         {[metrics |-> SetGauge(m, "pihole_clients_ever_seen", Host,
                                Cardinality(DOMAIN client_by_id)),
           frame |-> fr]}
    [] step = "_load_queries_today" ->
         {[metrics |-> m, frame |-> [fr EXCEPT !.q_today = Cardinality(Q)]]}
    [] step = "_load_queries_today:blocked" ->
         LET b_today == CountStatus(Q, BLOCKED_STATUSES)
         IN  {[metrics |->
                 SetGauge(SetGauge(SetGauge(SetGauge(m,
                   "pihole_dns_queries_today", Host, fr.q_today),
                   "pihole_dns_queries_all_types", Host, fr.q_today),
                   "pihole_ads_blocked_today", Host, b_today),
                   "pihole_ads_percentage_today", Host, percentage(b_today, fr.q_today)),
               frame |-> fr]}
    [] step = "_load_unique_counts" ->
         {[metrics |->
             SetGauge(SetGauge(m,
               "pihole_unique_clients", Host, Cardinality({r.client : r \in Q})),
               "pihole_unique_domains", Host, Cardinality({r.domain : r \in Q})),
           frame |-> fr]}
    [] step = "_load_query_types" ->
         LET rows == GroupCount(Q, row_type)
         IN  {[metrics |->
                 [m EXCEPT !.gauges["pihole_querytypes"] =
                    publish_codes(@, QUERY_TYPE_MAP, counts_by_type(rows))],
               frame |-> [fr EXCEPT !.types = rows]]}
    [] step = "_load_reply_types" ->
         LET rows == GroupCount(Q, row_reply_type)
         IN  {[metrics |->
                 [m EXCEPT !.gauges["pihole_reply"] =
                    publish_codes(@, REPLY_TYPE_MAP, counts_by_reply(rows))],
               frame |-> [fr EXCEPT !.replies = rows]]}
    [] step = "_load_forwarded_cached" ->
         {[metrics |->
             SetGauge(SetGauge(m,
               "pihole_queries_forwarded", Host, CountStatus(Q, {2})),
               "pihole_queries_cached", Host, CountStatus(Q, {3})),
           frame |-> fr]}
    [] step = "_load_forward_destinations" ->
         LET rows == GroupCount(Forwarded(Q), row_forward)
         IN  {[metrics |->
                 [m EXCEPT
                    !.gauges["pihole_forward_destinations"] = SetAll(@, rows),
                    !.gauges["pihole_forward_destinations_responsetime"] =
                       SetAll(@, [d \in DOMAIN rows |-> "AVG(reply_time)"]),
                    !.gauges["pihole_forward_destinations_responsevariance"] =
                       SetAll(@, [d \in DOMAIN rows |-> "variance"])],
               frame |-> [fr EXCEPT !.forwards = rows]]}
    [] step = "_load_synthetic_destinations" ->
         LET synthetic == [d \in {"cache", "blocklist"} |->
                             IF d = "cache" THEN CountStatus(Q, {3})
                             ELSE CountStatus(Q, BLOCKED_STATUSES)]
         IN  {[metrics |->
                 [m EXCEPT
                    !.gauges["pihole_forward_destinations"] = SetAll(@, synthetic),
                    !.gauges["pihole_forward_destinations_responsetime"] =
                       SetAll(@, [d \in DOMAIN synthetic |-> "0.0"]),
                    !.gauges["pihole_forward_destinations_responsevariance"] =
                       SetAll(@, [d \in DOMAIN synthetic |-> "0.0"])],
               frame |-> fr]}
    [] step = "_load_top_lists" ->
         {[metrics |->
             [m EXCEPT !.gauges["pihole_top_ads"] = SetAll(@, ads),
                       !.gauges["pihole_top_queries"] = SetAll(@, queries),
                       !.gauges["pihole_top_sources"] = SetAll(@, sources)],
           frame |-> [fr EXCEPT !.top_ads = ads, !.top_queries = queries,
                                !.top_sources = sources]] :
            ads \in Limit(GroupCount(Blocked(Q), row_domain), TopN),
            queries \in Limit(GroupCount(Q, row_domain), TopN),
            sources \in Limit(GroupCount(Q, row_source), TopN)}

\* a lookup that gives up when the supplementary source is unreadable
domains_value_no_fallback(gravity_readable, ftl_readable, src) ==
  IF gravity_readable THEN src.gravity ELSE 0

\* _load_domains_blocked lines 235-256: the gravity count, else the
\* domain_by_id count of the primary source, else 0
domains_value(gravity_readable, ftl_readable, src) ==
  IF gravity_readable THEN src.gravity
  ELSE IF ftl_readable THEN src.domain_by_id
  ELSE 0

\* scrape_and_update gets the lock (no other pass runs here) and resets its
\* locals
pass_enter ==
  /\ ppc = "idle"
  /\ passes < MaxPasses
  /\ unit' = [unit EXCEPT !.passes = @ + 1, !.frame = NewFrame,
                          !.ppc = "clear_dynamic_series"]
  /\ UNCHANGED vars

\* metrics.METRICS.clear_dynamic_series()
pass_clear ==
  /\ ppc = "clear_dynamic_series"
  /\ unit' = [unit EXCEPT !.METRICS = clear_dynamic(@), !.ppc = "sqlite_ro"]
  /\ UNCHANGED vars

\* with sqlite_ro(SETTINGS.ftl_db_path): the connection opens or raises
pass_open ==
  /\ ppc = "sqlite_ro"
  /\ \E opened \in BOOLEAN :
       unit' = [unit EXCEPT !.ppc = IF opened THEN PassSteps[1] ELSE "finally"]
  /\ UNCHANGED vars

\* one sub-step of the catalog reads the source as it is now and sets its
\* gauges
pass_load ==
  /\ ppc \in {PassSteps[i] : i \in DOMAIN PassSteps}
  /\ \E out \in run_loader(ppc, METRICS, frame, source) :
       unit' = [unit EXCEPT !.METRICS = out.metrics, !.frame = out.frame,
                            !.ppc = AfterStep(ppc)]
  /\ UNCHANGED vars

\* the query of a sub-step raises (the database is locked, a table is
\* missing): the pass goes to its finally block.  _load_counters has set
\* pihole_status before its first query.
pass_load_raise ==
  /\ ppc \in {PassSteps[i] : i \in DOMAIN PassSteps}
  /\ unit' = [unit EXCEPT
                !.METRICS = IF ppc = "_load_counters"
                              THEN SetGauge(@, "pihole_status", Host, 1) ELSE @,
                !.ppc = "finally"]
  /\ UNCHANGED vars

\* _load_domains_blocked(host), then success = 1.0
pass_domains ==
  /\ ppc = "_load_domains_blocked"
  /\ \E gravity_readable \in BOOLEAN, ftl_readable \in BOOLEAN :
       unit' = [unit EXCEPT
                  !.METRICS = SetGauge(@, "pihole_domains_being_blocked", Host,
                                       domains_value(gravity_readable, ftl_readable, source)),
                  !.frame = [@ EXCEPT !.gravity_readable = gravity_readable,
                                      !.ftl_readable = ftl_readable,
                                      !.success = 1],
                  !.ppc = "finally"]
  /\ UNCHANGED vars

\* the finally block: the registry is serialized and published, whatever
\* the pass did
pass_finally ==
  /\ ppc = "finally"
  /\ unit' = [unit EXCEPT
                !.published = [exists |-> TRUE, success |-> frame.success,
                               metrics |-> METRICS],
                !.ppc = "idle"]
  /\ UNCHANGED vars

\* the appliance logs a query: the row and the lifetime counters in one
\* transaction
upstream_insert ==
  /\ upstream < MaxUpstream
  /\ \E r \in Rows \ source.queries :
       unit' = [unit EXCEPT
                  !.source.queries = @ \cup {r},
                  !.source.counters.total = @ + 1,
                  !.source.counters.blocked =
                     IF r.status \in BLOCKED_STATUSES THEN @ + 1 ELSE @,
                  !.upstream = @ + 1]
  /\ UNCHANGED vars

\* the appliance starts over with a new database (the source restarted)
upstream_reset ==
  /\ upstream < MaxUpstream
  /\ source.queries # {}
  /\ unit' = [unit EXCEPT !.source = NewSource, !.upstream = @ + 1]
  /\ UNCHANGED vars

\* ---- the rate tracker on its own ------------------------------------------
\* RequestRateTracker.update against a database the appliance writes to.
\* Times are in ticks, TicksPerSecond of them to the second, so that two
\* calls less than a second apart can be told from two calls at the same
\* time; the now of a call is any tick (the caller passes it).  A rate is
\* the fraction num/den of queries per second.  One call of update is one
\* step: the appliance does not write between its statements.

\* last tick a call can be made at
MaxTick == 3
\* ticks in one second
TicksPerSecond == 2
\* largest value of the lifetime total in the counters table
MaxTotal == 2
\* largest number of rows in the queries table
MaxRows == 2

\* how the queries table can be told apart row by row: it has rowids, or
\* no rowid but an id column, or neither
Schemas == {"rowid", "id", "none"}

\* where the first try block of update can raise: nowhere, at sqlite_ro,
\* at the read of the blocked counter (the total is read), at SELECT MAX
Failures == {"no", "sqlite_ro", "SQL_COUNTER_BLOCKED", "MAX"}

\* RequestRateTracker(): no baseline, cursor column not detected
NewTracker ==
  [last_request_ts |-> NULL, last_request_total |-> NULL, last_request_rowid |-> NULL,
   cursor_col |-> "None", logged_no_cursor |-> FALSE]

\* rate_gauge.labels(host).set(0.0)
Zero == [num |-> 0, den |-> 1]

\* the gauge before any set
NoRate == [num |-> 0, den |-> 0]

\* no call of update yet.  nth is the number of calls since construction
\* or reset (2: two or more), before the tracker the last call found,
\* previous_total the total the call before it read; the now of the last
\* call is left in last_request_ts.  warnings is the number of "Request rate
\* cursor unavailable" records logged and detections the number of times
\* _detect_cursor went to the database and came back, both since
\* construction or reset (2: two or more).  cursor_read: SELECT MAX was run
\* by the last call and returned.
NoUpdate ==
  [nth |-> 0, resets |-> 0, raised |-> FALSE, before |-> NewTracker,
   previous_total |-> NULL, total |-> NULL, cursor_col |-> "", latest_cursor |-> NULL,
   counted |-> 0, warnings |-> 0, detections |-> 0, cursor_read |-> FALSE]

\* RequestRateTracker.reset
reset(tr) == NewTracker

\* _detect_cursor: the column it returns ("" for None) and leaves in
\* _cursor_col
detect_cursor(tr, schema) ==
  IF tr.cursor_col # "None" THEN tr.cursor_col
  ELSE IF schema = "rowid" THEN "rowid"
  ELSE IF schema = "id" THEN "id"
  ELSE ""

\* SELECT MAX(col) FROM queries: NULL for an empty table
MaxCursor(db) == IF db.rows = 0 THEN NULL ELSE db.rows

\* SELECT COUNT(*) FROM queries WHERE col > last
CountBeyond(db, last) == IF db.rows > last THEN db.rows - last ELSE 0

\* a refresh whose failure leaves update
refresh_unguarded(tr, db, failure) ==
  [raises |-> failure # "no", total |-> NULL, cursor_col |-> "",
   latest_cursor |-> tr.last_request_rowid, tracker |-> tr, warned |-> FALSE]

\* a warning that leaves no mark
mark_logged_not(tr) == tr

\* update line 78: the warning has been logged
mark_logged(tr) == [tr EXCEPT !.logged_no_cursor = TRUE]

\* update lines 58-80: the locals total, cursor_col and latest_cursor after
\* the try block, the tracker with what detection cached and logged, and
\* whether the warning was logged
refresh(tr, db, failure) ==
  LET col == detect_cursor(tr, db.schema)
      detected == [tr EXCEPT !.cursor_col = col]
  IN
  CASE failure = "sqlite_ro" ->
         [raises |-> FALSE, total |-> NULL, cursor_col |-> "",
          latest_cursor |-> tr.last_request_rowid, tracker |-> tr, warned |-> FALSE]
    [] failure = "SQL_COUNTER_BLOCKED" ->
         [raises |-> FALSE, total |-> db.total, cursor_col |-> "",
          latest_cursor |-> tr.last_request_rowid, tracker |-> tr, warned |-> FALSE]
    [] failure = "MAX" /\ col # "" ->
         [raises |-> FALSE, total |-> db.total, cursor_col |-> col,
          latest_cursor |-> tr.last_request_rowid, tracker |-> detected,
          warned |-> FALSE]
    [] OTHER ->
         IF col # ""
           THEN [raises |-> FALSE, total |-> db.total, cursor_col |-> col,
                 latest_cursor |-> MaxCursor(db), tracker |-> detected,
                 warned |-> FALSE]
           ELSE IF ~tr.logged_no_cursor
             THEN [raises |-> FALSE, total |-> db.total, cursor_col |-> col,
                   latest_cursor |-> tr.last_request_rowid,
                   tracker |-> mark_logged(detected), warned |-> TRUE]
             ELSE [raises |-> FALSE, total |-> db.total, cursor_col |-> col,
                   latest_cursor |-> tr.last_request_rowid, tracker |-> detected,
                   warned |-> FALSE]

\* the time between two calls as it is
elapsed_unfloored(t, last_request_ts) == t - last_request_ts

\* update line 83: max(1.0, now - last_request_ts), in ticks
elapsed_seconds(t, last_request_ts) ==
  IF t - last_request_ts > TicksPerSecond THEN t - last_request_ts ELSE TicksPerSecond

\* a cursor that is never looked at
cursor_ignored(tr, got) == FALSE

\* update lines 85-89: the rows beyond the cursor are counted
CursorAdvanced(tr, got) ==
  /\ got.cursor_col # ""
  /\ tr.last_request_rowid # NULL
  /\ got.latest_cursor # NULL
  /\ got.latest_cursor > tr.last_request_rowid

\* queries_delta without the max(0, ...) of line 103
queries_delta_signed(tr, got, counted) ==
  IF CursorAdvanced(tr, got) THEN counted
  ELSE IF tr.last_request_total # NULL /\ got.total # NULL
    THEN got.total - tr.last_request_total
  ELSE 0

\* update lines 84-103: queries_delta; counted is what the COUNT query gave
\* (0 when it raised)
queries_delta(tr, got, counted) ==
  IF CursorAdvanced(tr, got) THEN counted
  ELSE IF tr.last_request_total # NULL /\ got.total # NULL
    THEN IF got.total - tr.last_request_total > 0 THEN got.total - tr.last_request_total ELSE 0
  ELSE 0

\* update lines 82-115: the value the gauge is set to
rate(tr, got, counted, t) ==
  IF tr.last_request_ts # NULL
    THEN [num |-> queries_delta(tr, got, counted) * TicksPerSecond,
          den |-> elapsed_seconds(t, tr.last_request_ts)]
    ELSE Zero

\* update lines 117-121: the new baseline
baseline(tr, got, t) ==
  [tr EXCEPT !.last_request_ts = t,
             !.last_request_total = IF got.total # NULL THEN got.total ELSE @,
             !.last_request_rowid = IF got.latest_cursor # NULL THEN got.latest_cursor ELSE @]

\* RequestRateTracker.update(now=...): got is what the first try block
\* leaves, counted what the COUNT query gives when it is run (0 when it
\* raises)
Rate_update ==
  /\ \E t \in 0 .. MaxTick, failure \in Failures :
     \E got \in {refresh(tracker, ftl, failure)} :
     \E counted \in IF CursorAdvanced(tracker, got)
                      THEN {0, CountBeyond(ftl, tracker.last_request_rowid)} ELSE {0} :
       unit' =
         [unit EXCEPT
            !.tracker = IF got.raises THEN @ ELSE baseline(got.tracker, got, t),
            !.request_rate = IF got.raises THEN @ ELSE rate(tracker, got, counted, t),
            !.last_update =
               [@ EXCEPT
                  !.nth = IF @ < 2 THEN @ + 1 ELSE @,
                  !.raised = got.raises, !.before = tracker,
                  !.previous_total = last_update.total,
                  !.total = got.total, !.cursor_col = got.cursor_col,
                  !.latest_cursor = got.latest_cursor,
                  !.counted = counted,
                  !.cursor_read = got.cursor_col # "" /\ failure # "MAX",
                  !.warnings = IF got.warned /\ @ < 2 THEN @ + 1 ELSE @,
                  !.detections =
                     IF tracker.cursor_col = "None" /\ got.tracker.cursor_col # "None" /\ @ < 2
                       THEN @ + 1 ELSE @]]
  /\ UNCHANGED vars

\* RequestRateTracker.reset()
Rate_reset ==
  /\ last_update.nth > 0
  /\ unit' = [unit EXCEPT !.tracker = reset(@),
                          !.last_update = [@ EXCEPT !.nth = 0, !.resets = 1,
                                                    !.total = NULL, !.warnings = 0,
                                                    !.cursor_read = FALSE,
                                                    !.detections = 0]]
  /\ UNCHANGED vars

\* the appliance logs a query: a row, and the lifetime total
Rate_insert ==
  /\ ftl.total < MaxTotal
  /\ ftl.rows < MaxRows
  /\ unit' = [unit EXCEPT !.ftl.total = @ + 1, !.ftl.rows = @ + 1]
  /\ UNCHANGED vars

\* the appliance starts again on a new database: counters at zero, no
\* rows
Rate_restart ==
  /\ ftl.total > 0
  /\ unit' = [unit EXCEPT !.ftl.total = 0, !.ftl.rows = 0]
  /\ UNCHANGED vars

\* the lifetime total moves without a row (tests/fixtures.py
\* update_counters)
Rate_update_counters ==
  /\ ftl.total < MaxTotal
  /\ unit' = [unit EXCEPT !.ftl.total = @ + 1]
  /\ UNCHANGED vars

\* rows arrive without the lifetime total moving (tests/fixtures.py
\* add_queries)
Rate_add_queries ==
  /\ ftl.rows < MaxRows
  /\ unit' = [unit EXCEPT !.ftl.rows = @ + 1]
  /\ UNCHANGED vars

\* ---- the background loop on its own -----------------------------------------
\* _scrape_loop with a stop event, next to a caller that calls
\* scrape_and_update directly.  A pass is what the loop sees of it: it
\* returns or raises, and time_fn() has moved by elapsed seconds (the wall
\* clock can be set back while the pass runs).

\* most passes the loop starts
MaxLoops == 2
\* longest pass, in seconds
MaxElapsed == 3
\* largest SETTINGS.scrape_interval
MaxInterval == 3

loop == unit.loop
direct == unit.direct

\* how a call of scrape_and_update ends: it returns (also when it skipped),
\* or the exception of a query is logged and raised again
Outcomes == {"returned", "raised"}

\* time_fn() - start after a pass
Elapsed == -1 .. MaxElapsed

\* a loop without the try
unguarded(outcome) == IF outcome = "raised" THEN "raised" ELSE "elapsed"

\* _scrape_loop lines 351-354: where the loop is after the pass; an
\* exception is logged
guarded(outcome) == "elapsed"

\* a stop event nobody looks at
is_set_never(stop_event) == FALSE

\* _scrape_loop line 348
is_set(stop_event) == stop_event # "None" /\ stop_event = "set"

\* where the stop event was set: not yet
NotStopped == [pc |-> "", runs |-> 0]

\* before threading.Thread(target=_scrape_loop).start()
NewLoop(stop_event, scrape_interval) ==
  [pc |-> "not_started", stop_event |-> stop_event, scrape_interval |-> scrape_interval,
   interval |-> 0, runs |-> 0, outcome |-> "none", elapsed |-> 0, slept |-> 0,
   spacing |-> 0, stop_at |-> NotStopped]

\* no direct call yet
NoCall == [outcome |-> "none", seen |-> "none"]

\* the thread starts; line 346
Loop_start ==
  /\ loop.pc = "not_started"
  /\ unit' = [unit EXCEPT !.loop.pc = "while",
                          !.loop.interval = Max(1, loop.scrape_interval)]
  /\ UNCHANGED vars

\* lines 347-352: return when the stop event is set, else take the time and
\* call scrape_and_update
Loop_while ==
  /\ loop.pc = "while"
  /\ IF is_set(loop.stop_event)
       THEN unit' = [unit EXCEPT !.loop.pc = "returned"]
       ELSE /\ loop.runs < MaxLoops
            /\ unit' = [unit EXCEPT !.loop.pc = "scrape_and_update",
                                    !.loop.runs = @ + 1]
  /\ UNCHANGED vars

\* lines 351-354: the pass ends
Loop_scrape_and_update ==
  /\ loop.pc = "scrape_and_update"
  /\ \E outcome \in Outcomes :
       unit' = [unit EXCEPT !.loop.pc = guarded(outcome), !.loop.outcome = outcome]
  /\ UNCHANGED vars

\* lines 355-356: elapsed = time_fn() - start; sleep_fn(...)
Loop_sleep ==
  /\ loop.pc = "elapsed"
  /\ \E elapsed \in Elapsed :
       unit' = [unit EXCEPT !.loop.pc = "sleep", !.loop.elapsed = elapsed,
                            !.loop.slept = sleep_seconds(loop.interval, elapsed)]
  /\ UNCHANGED vars

\* time.sleep returns, after the time asked for or a second later
Loop_wake ==
  /\ loop.pc = "sleep"
  /\ \E late \in {0, 1} :
       unit' = [unit EXCEPT !.loop.pc = "while", !.loop.spacing = loop.slept + late]
  /\ UNCHANGED vars

\* stop_event.set(), by whoever holds the event
Stop_set ==
  /\ loop.stop_event = "clear"
  /\ unit' = [unit EXCEPT !.loop.stop_event = "set",
                          !.loop.stop_at = [pc |-> loop.pc, runs |-> loop.runs]]
  /\ UNCHANGED vars

\* a call of scrape_and_update outside the loop: nothing between the call
\* and its caller
Direct_scrape_and_update ==
  /\ \E outcome \in Outcomes :
       unit' = [unit EXCEPT !.direct = [outcome |-> outcome, seen |-> outcome]]
  /\ UNCHANGED vars

\* ---- the lock of scrape_and_update on its own -----------------------------
\* Calls of scrape_and_update by the two threads, at the level of the lock:
\* each call is cut where the lock is taken, where the statements between
\* the acquire and the try block have run, where the try block is left and
\* where the finally block releases.  Any statement that computes the start
\* of the day, the time or a log record can raise.

held == unit.held
calls == unit.calls

\* a thread outside scrape_and_update that has not called it yet
NotCalled == [pc |-> "idle", outcome |-> "none", pending |-> "none"]

\* a call that leaves the lock alone when the lines before the try raise
prologue_raises_released(t, h) == Free

\* lines 272-285 raise: nothing handles the exception and nothing releases,
\* the lock stays with the thread
prologue_raises(t, h) == h

\* a thread calls scrape_and_update
Lock_call(t) ==
  /\ calls[t].pc = "idle"
  /\ unit' = [unit EXCEPT !.calls[t] = [pc |-> "acquire", outcome |-> "none",
                                         pending |-> "none"]]
  /\ UNCHANGED vars

\* line 262: _SCRAPE_LOCK.acquire(blocking=False); lines 263-271 when it is
\* held.  starved: the call was skipped although no call was in progress.
Lock_acquire(t) ==
  /\ calls[t].pc = "acquire"
  /\ IF acquire(held)
       THEN unit' = [unit EXCEPT !.held = t, !.calls[t].pc = "prologue"]
       ELSE unit' = [unit EXCEPT !.calls[t].pc = "idle",
                                 !.calls[t].outcome = "skipped",
                                 !.starved = @ \/ calls[held].pc = "idle"]
  /\ UNCHANGED vars

\* lines 272-285: host, sod, now, ctx, start, success, logger.debug
Lock_prologue(t) ==
  /\ calls[t].pc = "prologue"
  /\ \/ unit' = [unit EXCEPT !.calls[t].pc = "try"]
     \/ unit' = [unit EXCEPT !.calls[t].pc = "idle", !.calls[t].outcome = "raised",
                              !.held = prologue_raises(t, @)]
  /\ UNCHANGED vars

\* lines 287-315: the try block completes, or a sub-step raises and the
\* exception is logged and raised again
Lock_try(t) ==
  /\ calls[t].pc = "try"
  /\ \E outcome \in Outcomes :
       unit' = [unit EXCEPT !.calls[t].pc = "finally", !.calls[t].pending = outcome]
  /\ UNCHANGED vars

\* lines 316-338: the finally block releases the lock first; the call
\* returns or the pending exception goes on to the caller
Lock_finally(t) ==
  /\ calls[t].pc = "finally"
  /\ unit' = [unit EXCEPT !.held = Free, !.calls[t].pc = "idle",
                          !.calls[t].outcome = calls[t].pending,
                          !.calls[t].pending = "none"]
  /\ UNCHANGED vars

\* ---- the time windows of a pass on their own ---------------------------------
\* The wall clock runs while a pass reads it and hands what it read to the
\* loaders.  A day is DayLength seconds long (86400 in the code) and the
\* trailing window of _load_unique_counts is as long.

\* seconds in a day
DayLength == 3
\* last second of the wall clock; the first is DayLength
MaxWall == 7

wall == unit.wall
wpc == unit.wpc
used == unit.used

\* start_of_day_ts, lines 60-64: midnight of the day the clock is in
start_of_day_ts(clk) == clk - (clk % DayLength)

\* now_ts, line 68
now_ts(clk) == clk

\* the loaders called with sod (lines 296-303; the queries of
\* _load_queries_today are two sub-steps)
TodaySteps ==
  {"_load_queries_today", "_load_queries_today:blocked", "_load_query_types",
   "_load_reply_types", "_load_forwarded_cached", "_load_forward_destinations",
   "_load_synthetic_destinations", "_load_top_lists"}

\* the loader called with now
TrailingSteps == {"_load_unique_counts"}

\* loaders that read the clock themselves
since_reread(step, d, n, clk) ==
  IF step \in TodaySteps THEN start_of_day_ts(clk) ELSE now_ts(clk) - DayLength

\* the ? of the loader's queries: sod for the today window (lines 129-228),
\* now - 86400 for the trailing one (lines 142, 145); d and n are the sod and
\* now of the pass, clk the clock when the loader runs
since(step, d, n, clk) ==
  IF step \in TodaySteps THEN d ELSE n - DayLength

\* no loader has run in this pass
NotUsed == [step \in TodaySteps \cup TrailingSteps |-> [run |-> FALSE, since |-> 0]]

\* a second passes
Window_tick ==
  /\ wall < MaxWall
  /\ unit' = [unit EXCEPT !.wall = @ + 1]
  /\ UNCHANGED vars

\* scrape_and_update is called and has the lock
Window_enter ==
  /\ wpc = "idle"
  /\ unit' = [unit EXCEPT !.wpc = "sod", !.used = NotUsed]
  /\ UNCHANGED vars

\* line 273: sod = start_of_day_ts()
Window_sod ==
  /\ wpc = "sod"
  /\ unit' = [unit EXCEPT !.wpc = "now", !.sod = start_of_day_ts(wall), !.sod_at = wall]
  /\ UNCHANGED vars

\* line 274: now = now_ts()
Window_now ==
  /\ wpc = "now"
  /\ unit' = [unit EXCEPT !.wpc = PassSteps[1], !.now = now_ts(wall), !.now_at = wall]
  /\ UNCHANGED vars

\* lines 292-303: the next loader runs its queries
Window_load ==
  /\ \E i \in DOMAIN PassSteps : wpc = PassSteps[i]
  /\ unit' = [unit EXCEPT
                !.wpc = AfterStep(wpc),
                !.used = IF wpc \in DOMAIN @
                           THEN [@ EXCEPT ![wpc] = [run |-> TRUE,
                                                    since |-> since(wpc, unit.sod, unit.now, wall)]]
                           ELSE @]
  /\ UNCHANGED vars

\* lines 305-338: the rest of the pass
Window_return ==
  /\ wpc = "_load_domains_blocked"
  /\ unit' = [unit EXCEPT !.wpc = "idle"]
  /\ UNCHANGED vars

\* ---- the connections of a pass on their own ----------------------------------
\* The connections scrape_and_update and _load_domains_blocked open, from
\* sqlite_ro to the moment sqlite closes them.  No statement of the package
\* calls close(): a connection is closed when the interpreter frees the
\* object, some time after the last name that holds it has gone (at once
\* with reference counts, at a collection otherwise).

\* passes in one behaviour
MaxConnPasses == 2

cpc == unit.cpc
conns == unit.conns

\* a with statement whose exit closes the connection
exit_closes(c) == [c EXCEPT !.state = "closed"]

\* lines 291-303, 237-239, 248-254: sqlite3.Connection.__exit__ commits or
\* rolls back; the connection stays open and the local still names it
exit(c) == c

\* sqlite3.connect returned: the connection db of the pass, named by a local
\* of function f; primary_open: the connection of line 291 was open then
Connection(db, f, primary_open) ==
  [db |-> db, frame |-> f, state |-> "named", pass |-> unit.conn_passes,
   primary_open |-> primary_open]

\* a connection is open until sqlite closes it
IsOpen(c) == c.state # "closed"

\* the connection of line 291 of the running pass is open
PrimaryOpen ==
  \E i \in DOMAIN conns :
    /\ conns[i].db = "ftl_db_path" /\ conns[i].frame = "scrape_and_update"
    /\ conns[i].pass = unit.conn_passes /\ IsOpen(conns[i])

\* the function f returns or is left by an exception: its locals go
Unname(cs, f) ==
  [i \in DOMAIN cs |-> IF cs[i].frame = f /\ cs[i].state = "named"
                         THEN [cs[i] EXCEPT !.state = "garbage"] ELSE cs[i]]

\* the with block of a connection is left
ExitLast(cs) == [cs EXCEPT ![Len(cs)] = exit(@)]

\* scrape_and_update is called and reaches the try block
Conn_call ==
  /\ cpc = "idle"
  /\ unit.conn_passes < MaxConnPasses
  /\ unit' = [unit EXCEPT !.cpc = "sqlite_ro", !.conn_passes = @ + 1]
  /\ UNCHANGED vars

\* line 291: sqlite_ro(SETTINGS.ftl_db_path) returns a connection or raises
Conn_sqlite_ro ==
  /\ cpc = "sqlite_ro"
  /\ \/ unit' = [unit EXCEPT
                    !.cpc = "catalog",
                    !.conns = Append(@, Connection("ftl_db_path", "scrape_and_update", FALSE))]
     \/ unit' = [unit EXCEPT !.cpc = "finally"]
  /\ UNCHANGED vars

\* lines 292-303: the loaders run and the with block is left, by its end or
\* by an exception of a loader
Conn_catalog ==
  /\ cpc = "catalog"
  /\ \E next \in {"_load_domains_blocked", "finally"} :
       unit' = [unit EXCEPT !.cpc = next, !.conns = ExitLast(@)]
  /\ UNCHANGED vars

\* lines 236-239: sqlite_ro(SETTINGS.gravity_db_path) and the count, or an
\* exception of either
Conn_gravity ==
  /\ cpc = "_load_domains_blocked"
  /\ \/ \E next \in {"fallback", "set"} :
          unit' = [unit EXCEPT
                     !.cpc = next,
                     !.conns = ExitLast(Append(@, Connection("gravity_db_path",
                                                             "_load_domains_blocked",
                                                             PrimaryOpen)))]
     \/ unit' = [unit EXCEPT !.cpc = "fallback"]
  /\ UNCHANGED vars

\* lines 246-256: the fallback opens the FTL database again
Conn_fallback ==
  /\ cpc = "fallback"
  /\ \/ unit' = [unit EXCEPT
                    !.cpc = "set",
                    !.conns = ExitLast(Append(@, Connection("ftl_db_path",
                                                            "_load_domains_blocked",
                                                            PrimaryOpen)))]
     \/ unit' = [unit EXCEPT !.cpc = "set"]
  /\ UNCHANGED vars

\* line 258: the gauge is set and _load_domains_blocked returns
Conn_domains_return ==
  /\ cpc = "set"
  /\ unit' = [unit EXCEPT !.cpc = "finally",
                          !.conns = Unname(@, "_load_domains_blocked")]
  /\ UNCHANGED vars

\* lines 316-338: the finally block, and scrape_and_update returns or is
\* left by the exception raised again at line 315
Conn_return ==
  /\ cpc = "finally"
  /\ unit' = [unit EXCEPT !.cpc = "idle", !.conns = Unname(@, "scrape_and_update")]
  /\ UNCHANGED vars

\* the interpreter frees a connection no name holds: sqlite closes it
Conn_free ==
  /\ \E i \in DOMAIN conns :
       /\ conns[i].state = "garbage"
       /\ unit' = [unit EXCEPT !.conns[i].state = "closed"]
  /\ UNCHANGED vars

\* ---- the top lists on their own ----------------------------------------------
\* clear_dynamic_series and _load_top_lists, pass after pass, on a queries
\* table in which a domain and a client can have several rows and with a
\* top_n small enough for LIMIT to cut.

\* largest SETTINGS.top_n (settings.py line 50 refuses a value below 1)
MaxTopN == 2
\* rows of today in the queries table
MaxTopRows == 4

top_n == unit.top_n
tpc == unit.tpc
seen == unit.seen

\* the three gauges in the order _load_top_lists sets them
TopLists == << "pihole_top_ads", "pihole_top_queries", "pihole_top_sources" >>

\* the rows the appliance logs: those of Rows and a blocked query for a
\* second domain
TopRows ==
  Rows \cup {[status |-> 1, type |-> 1, reply_type |-> 3, forward |-> NoForward,
              domain |-> "tracker.com", client |-> "10.0.0.2"]}

\* the k-th row with the columns of r
Stored(r, k) ==
  [status |-> r.status, type |-> r.type, reply_type |-> r.reply_type,
   forward |-> r.forward, domain |-> r.domain, client |-> r.client, copy |-> k]

\* SQL_TOP_ADS, SQL_TOP_QUERIES, SQL_TOP_SOURCES before ORDER BY and LIMIT
TopGroups(list, Q) ==
  CASE list = "pihole_top_ads" -> GroupCount(Blocked(Q), row_domain)
    [] list = "pihole_top_queries" -> GroupCount(Q, row_domain)
    [] OTHER -> GroupCount(Q, row_source)

\* no query of _load_top_lists has run
NotSeen == [list \in {TopLists[i] : i \in DOMAIN TopLists} |-> << >>]

\* scrape_and_update is called
Top_enter ==
  /\ tpc = "idle"
  /\ unit' = [unit EXCEPT !.tpc = "clear_dynamic_series", !.success = FALSE,
                          !.seen = NotSeen]
  /\ UNCHANGED vars

\* line 288: metrics.METRICS.clear_dynamic_series()
Top_clear ==
  /\ tpc = "clear_dynamic_series"
  /\ unit' = [unit EXCEPT !.METRICS = clear_dynamic(@), !.tpc = TopLists[1]]
  /\ UNCHANGED vars

\* lines 220-230: one of the three queries and the loop that sets its rows;
\* after the third the pass has got through its try block
Top_load ==
  /\ \E i \in DOMAIN TopLists :
       /\ tpc = TopLists[i]
       /\ \E rows \in Limit(TopGroups(tpc, unit.queries), top_n) :
            unit' = [unit EXCEPT
                       !.METRICS.gauges[tpc] = SetAll(@, rows),
                       !.seen[tpc] = TopGroups(tpc, unit.queries),
                       !.success = i = Len(TopLists),
                       !.tpc = IF i = Len(TopLists) THEN "finally" ELSE TopLists[i + 1]]
  /\ UNCHANGED vars

\* lines 307-315: a query raises
Top_raise ==
  /\ \E i \in DOMAIN TopLists : tpc = TopLists[i]
  /\ unit' = [unit EXCEPT !.tpc = "finally"]
  /\ UNCHANGED vars

\* lines 316-338
Top_finally ==
  /\ tpc = "finally"
  /\ unit' = [unit EXCEPT !.tpc = "idle"]
  /\ UNCHANGED vars

\* the appliance logs a query
Top_insert ==
  /\ Cardinality(unit.queries) < MaxTopRows
  /\ \E r \in TopRows :
       unit' = [unit EXCEPT
                  !.queries = @ \cup {Stored(r, 1 + Cardinality({q \in @ :
                                                     q.domain = r.domain /\ q.client = r.client}))}]
  /\ UNCHANGED vars

\* ---- main on its own ----------------------------------------------------------
\* main() statement by statement, with what it logs, and what it starts:
\* the daemon thread of _scrape_loop and the HTTP server.  The initial pass
\* is an input here: it returns or raises.

\* passes of the background loop in one behaviour
MaxMainLoops == 2
\* requests served in one behaviour
MaxServed == 3

mpc == unit.mpc
main_log == unit.main_log

\* a main without the try of line 815: the exception leaves it
after_initial_unguarded(outcome) ==
  [next |-> IF outcome = "raised" THEN "aborted" ELSE "Thread", logged |-> << >>]

\* lines 815-818: an exception of the initial pass is logged and main goes
\* on to the thread
after_initial(outcome) ==
  [next |-> "Thread",
   logged |-> IF outcome = "raised" THEN << "Initial scrape failed" >> ELSE << >>]

\* lines 796-813: the arguments, the logging, the two records of the start
Main_configure ==
  /\ mpc = "main"
  /\ unit' = [unit EXCEPT !.mpc = "try",
                          !.main_log = @ \o << "Exporter version", "Starting exporter" >>]
  /\ UNCHANGED vars

\* lines 815-818: scrape_and_update() inside try / except Exception
Main_initial ==
  /\ mpc = "try"
  /\ \E outcome \in Outcomes :
       unit' = [unit EXCEPT
                  !.initial = outcome,
                  !.mpc = after_initial(outcome).next,
                  !.main_log = @ \o after_initial(outcome).logged,
                  !.aborted_by = IF after_initial(outcome).next = "aborted"
                                   THEN "scrape_and_update" ELSE @]
  /\ UNCHANGED vars

\* lines 820-821: the daemon thread of _scrape_loop is started
Main_thread_start ==
  /\ mpc = "Thread"
  /\ unit' = [unit EXCEPT !.mpc = "HTTPServer", !.thread = "started"]
  /\ UNCHANGED vars

\* lines 823-824: HTTPServer binds the address, or raises OSError and main
\* ends (the daemon thread with it)
Main_HTTPServer ==
  /\ mpc = "HTTPServer"
  /\ \/ unit' = [unit EXCEPT !.mpc = "serve_forever", !.server = "bound",
                             !.main_log = Append(@, "HTTP server ready")]
     \/ unit' = [unit EXCEPT !.mpc = "aborted", !.aborted_by = "HTTPServer"]
  /\ UNCHANGED vars

\* line 825: serve_forever handles a request
Main_serve_forever ==
  /\ mpc = "serve_forever"
  /\ unit.served < MaxServed
  /\ unit' = [unit EXCEPT !.served = @ + 1]
  /\ UNCHANGED vars

\* _scrape_loop, lines 771-786: one more pass of the thread, returned or
\* raised and logged
Main_scrape_loop ==
  /\ unit.thread = "started"
  /\ mpc # "aborted"
  /\ unit.loops < MaxMainLoops
  /\ \E outcome \in Outcomes :
       unit' = [unit EXCEPT !.loops = @ + 1, !.last_loop = outcome]
  /\ UNCHANGED vars

\* ---- PayloadCache on its own ------------------------------------------------
\* One PayloadCache used by the two threads.  A method is cut at every
\* statement: between two assignments of set another thread can run.

\* the payloads and timestamps given to set
MaxSet == 2

cache == unit.cache
methods == unit.methods

\* PayloadCache(): payload, timestamp and last_error are None
NewCache == [payload |-> NULL, timestamp |-> NULL, last_error |-> "None"]

\* a thread that is in no method of the cache
NoMethod ==
  [op |-> "none", pc |-> "idle", payload |-> NULL, timestamp |-> NULL,
   message |-> "None", got |-> FALSE, value |-> [payload |-> NULL, last_error |-> "None"],
   at_read |-> NewCache]

\* the calls a thread can make
Methods ==
  {[NoMethod EXCEPT !.op = "set", !.pc = "with", !.payload = b, !.timestamp = ts] :
     b \in 1 .. MaxSet, ts \in 1 .. MaxSet}
  \cup {[NoMethod EXCEPT !.op = "set_error", !.pc = "with", !.message = "boom"],
        [NoMethod EXCEPT !.op = "get", !.pc = "with"]}

\* a with that does not wait for the lock
with_nothing(l) == TRUE

\* with self._lock: the thread goes on when the lock is free
with_lock(l) == l = Free

\* a thread calls get, set or set_error
Cache_call(t) ==
  /\ methods[t].pc = "idle"
  /\ \E m \in Methods : unit' = [unit EXCEPT !.methods[t] = m]
  /\ UNCHANGED vars

\* lines 15, 19, 25: the lock is taken.  committed is what the cache holds
\* once the methods that took the lock so far have all run.
Cache_with(t) ==
  /\ methods[t].pc = "with"
  /\ with_lock(unit.cache_lock)
  /\ unit' = [unit EXCEPT
                !.cache_lock = t,
                !.methods[t].pc = IF methods[t].op = "set" THEN "payload" ELSE "body",
                !.committed =
                   CASE methods[t].op = "set" ->
                          [payload |-> methods[t].payload,
                           timestamp |-> methods[t].timestamp, last_error |-> "None"]
                     [] methods[t].op = "set_error" ->
                          [@ EXCEPT !.last_error = methods[t].message]
                     [] OTHER -> @]
  /\ UNCHANGED vars

\* lines 20 and 21, one assignment at a time
Cache_set(t) ==
  /\ methods[t].pc \in {"payload", "timestamp"}
  /\ IF methods[t].pc = "payload"
       THEN unit' = [unit EXCEPT !.cache.payload = methods[t].payload,
                                 !.methods[t].pc = "timestamp"]
       ELSE unit' = [unit EXCEPT !.cache.timestamp = methods[t].timestamp,
                                 !.methods[t].pc = "last_error"]
  /\ UNCHANGED vars

\* line 22, line 26, line 16: the last statement of the method, and the lock
\* is released
Cache_release(t) ==
  /\ methods[t].pc \in {"last_error", "body"}
  /\ unit' =
       [unit EXCEPT
          !.cache_lock = Free,
          !.cache.last_error =
             CASE methods[t].op = "set" -> "None"
               [] methods[t].op = "set_error" -> methods[t].message
               [] OTHER -> @,
          !.methods[t] =
             IF methods[t].op = "get"
               THEN [NoMethod EXCEPT !.got = TRUE,
                                     !.value = [payload |-> cache.payload,
                                                last_error |-> cache.last_error],
                                     !.at_read = unit.committed]
               ELSE NoMethod]
  /\ UNCHANGED vars

\* ---- sqlite_ro on its own -------------------------------------------------
\* A path is a sequence of pieces of text: each piece is one character or
\* a run of characters that sqlite_ro and the parser of SQLite locators
\* treat as a whole.

\* longest path, in pieces
MaxPath == 3

\* the pieces: "db" stands for letters, digits, "." and the like
Pieces == {"file:", "/", "db", " ", "?", "%", "mode=ro", "mode=rw"}

\* the values of db_path
DbPaths == UNION {[1 .. n -> Pieces] : n \in 0 .. MaxPath}

db_path == unit.db_path
connection == unit.connection

\* urllib.parse.quote(piece, safe="/"): letters and "/" stay, the rest is
\* percent-escaped
quote_piece(c) ==
  CASE c = " " -> "%20"
    [] c = "?" -> "%3F"
    [] c = "%" -> "%25"
    [] c = "file:" -> "file%3A"
    [] c = "mode=ro" -> "mode%3Dro"
    [] c = "mode=rw" -> "mode%3Drw"
    [] OTHER -> c

\* urllib.parse.quote(db_path, safe="/")
quote(p) == [i \in DOMAIN p |-> quote_piece(p[i])]

\* the percent-decoding SQLite applies to the file name of a locator
unquote_piece(c) ==
  CASE c = "%20" -> " "
    [] c = "%3F" -> "?"
    [] c = "%25" -> "%"
    [] c = "file%3A" -> "file:"
    [] c = "mode%3Dro" -> "mode=ro"
    [] c = "mode%3Drw" -> "mode=rw"
    [] OTHER -> c

\* db_path.startswith("file:")
startswith_file(p) == Len(p) > 0 /\ p[1] = "file:"

\* db.py lines 11-14: the locator handed to sqlite3.connect
dsn(p) ==
  IF startswith_file(p) THEN p
  ELSE << "file:" >> \o quote(p) \o << "?", "mode=ro" >>

\* where the query string of a locator begins (past the end: none)
QueryAt(d) ==
  IF \E i \in DOMAIN d : d[i] = "?"
    THEN CHOOSE i \in DOMAIN d : d[i] = "?" /\ \A j \in 1 .. i - 1 : d[j] # "?"
    ELSE Len(d) + 1

\* sqlite3.connect(d, uri=True) for a locator d: the file is what stands
\* between "file:" and the first "?", percent-decoded; the mode is that of
\* the last mode parameter of the query string, and rwc (read, write,
\* create) without one
connect(d) ==
  LET IsMode(c) == c \in {"mode=ro", "mode=rw"}
      modes == SelectSeq(SubSeq(d, QueryAt(d) + 1, Len(d)), IsMode)
      name == SubSeq(d, 2, QueryAt(d) - 1)
  IN  [opened |-> TRUE,
       filename |-> [i \in DOMAIN name |-> unquote_piece(name[i])],
       mode |-> IF modes = << >> THEN "rwc"
                ELSE IF modes[Len(modes)] = "mode=ro" THEN "ro" ELSE "rw"]

\* before the call
NotOpened == [opened |-> FALSE, filename |-> << >>, mode |-> ""]

\* sqlite_ro(db_path)
Db_sqlite_ro ==
  /\ ~connection.opened
  /\ unit' = [unit EXCEPT !.dsn = dsn(db_path), !.connection = connect(dsn(db_path))]
  /\ UNCHANGED vars

\* ---- variance on its own ---------------------------------------------------
\* variance(values) for lists of whole numbers; the result is the fraction
\* num/den.

\* largest value in a list
MaxValue == 3
\* longest list
MaxValues == 3

\* the lists variance is called with
ValueLists == UNION {[1 .. n -> 0 .. MaxValue] : n \in 0 .. MaxValues}

\* sum(...)
RECURSIVE SumSeq(_)
SumSeq(s) == IF s = << >> THEN 0 ELSE Head(s) + SumSeq(Tail(s))

\* the variance of a sample: divisor count - 1
variance_sample(values) ==
  LET count == Len(values)
      total == SumSeq(values)
      squares == [i \in DOMAIN values |->
                    (values[i] * count - total) * (values[i] * count - total)]
  IN  IF count = 0 THEN [num |-> 0, den |-> 1]
      ELSE [num |-> SumSeq(squares), den |-> count * count * (count - 1)]

\* scraper.variance: mean = sum(values) / count is total/count, a squared
\* deviation (x - mean) ** 2 is (x * count - total)^2 / count^2, and their
\* sum is divided by count
variance(values) ==
  LET count == Len(values)
      total == SumSeq(values)
      squares == [i \in DOMAIN values |->
                    (values[i] * count - total) * (values[i] * count - total)]
  IN  IF count = 0 THEN [num |-> 0, den |-> 1]
      ELSE [num |-> SumSeq(squares), den |-> count * count * count]

\* before the call
NoResult == [called |-> FALSE, num |-> 0, den |-> 0]

\* variance(values)
Variance_call ==
  /\ ~unit.result.called
  /\ \E v \in {variance(unit.values)} :
       unit' = [unit EXCEPT !.result = [called |-> TRUE, num |-> v.num, den |-> v.den]]
  /\ UNCHANGED vars

\* ---- the specification ------------------------------------------------
\* the program as it runs
MainInit ==
  /\ pc = [t \in Threads |-> IF t = "main" THEN "main" ELSE "not_started"]
  /\ caller = [t \in Threads |-> "none"]
  /\ SCRAPE_LOCK = Free
  /\ success = [t \in Threads |-> 0]
  /\ scrape_timestamp = [t \in Threads |-> 0]
  /\ registry = EmptyRegistry
  /\ snapshot = [payload |-> NoPayload, timestamp |-> 0]
  /\ scrape_status = [success |-> 0, last_success |-> 0]
  /\ now = 1
  /\ loop_start = 0
  /\ wake_at = 0
  /\ response = NoResponse
  /\ path = "none"
  /\ acquired = [t \in Threads |-> FALSE]
  /\ lastPass = "none"
  /\ lastOutcome = "none"
  /\ okPass = "none"
  /\ numCalls = 0

\* unit in a specification that runs no component on its own
Parked == "parked"

Init == MainInit /\ unit = Parked

Next ==
  \/ \E t \in Threads : scrape_enter(t)
  \/ \E t \in Threads : scrape_clear(t)
  \/ \E t \in Threads : scrape_catalog(t)
  \/ \E t \in Threads : scrape_domains(t)
  \/ \E t \in Threads : scrape_release(t)
  \/ \E t \in Threads : scrape_set_gauges(t)
  \/ \E t \in Threads : scrape_record(t)
  \/ \E t \in Threads : scrape_update_snapshot(t)
  \/ main_initial
  \/ main_after_initial
  \/ start_background_scrape
  \/ loop_scrape
  \/ loop_sleep
  \/ loop_wake
  \/ \E p \in Paths : do_GET(p)
  \/ \E p \in Paths : get_snapshot_refresh(p)
  \/ get_snapshot_return
  \/ get_snapshot_raise

Spec == Init /\ [][Next]_vars

\* the handler on its own, for any request and any callables
HandlerInit ==
  /\ MainInit
  /\ \E r \in Requests : unit = [request |-> r, sent |-> Unsent]

HandlerNext == Handler_do_GET \/ Handler_request

SpecHandler == HandlerInit /\ [][HandlerNext]_unit

\* the pass on its data: passes one after the other, the appliance writing
\* to the source at any moment
PassInit ==
  /\ MainInit
  /\ \E enabled \in BOOLEAN :
       unit = [source |-> NewSource, METRICS |-> NewMetrics, ppc |-> "idle",
               frame |-> NewFrame, published |-> Unpublished, passes |-> 0,
               upstream |-> 0, enable_lifetime_dest_counters |-> enabled]

PassNext ==
  \/ pass_enter
  \/ pass_clear
  \/ pass_open
  \/ pass_load
  \/ pass_load_raise
  \/ pass_domains
  \/ pass_finally
  \/ upstream_insert
  \/ upstream_reset

SpecPass == PassInit /\ [][PassNext]_unit

\* the rate tracker on its own: calls of update and reset at any times,
\* against a database of any of the three schemas that the appliance writes
\* to
RateInit ==
  /\ MainInit
  /\ \E db \in [total : {0, 1}, rows : {0, 1}, schema : Schemas] :
       unit = [tracker |-> NewTracker, request_rate |-> NoRate, ftl |-> db,
               last_update |-> NoUpdate]

RateNext ==
  \/ Rate_update
  \/ Rate_reset
  \/ Rate_insert
  \/ Rate_update_counters
  \/ Rate_add_queries

SpecRate == RateInit /\ [][RateNext]_unit

\* the rate tracker of one process (nothing in the package calls reset)
\* against an appliance that can start again on a new database
RestartNext ==
  \/ Rate_update
  \/ Rate_insert
  \/ Rate_restart
  \/ Rate_update_counters

SpecRestart == RateInit /\ [][RestartNext]_unit

\* the lock on its own: the two threads call scrape_and_update at any time
LockInit ==
  /\ MainInit
  /\ unit = [held |-> Free, calls |-> [t \in Threads |-> NotCalled], starved |-> FALSE]

LockNext ==
  \E t \in Threads :
    \/ Lock_call(t)
    \/ Lock_acquire(t)
    \/ Lock_prologue(t)
    \/ Lock_try(t)
    \/ Lock_finally(t)

SpecLock == LockInit /\ [][LockNext]_unit

\* the time windows of a pass: passes one after the other, the clock
\* running
WindowInit ==
  /\ MainInit
  /\ unit = [wall |-> DayLength, wpc |-> "idle", sod |-> 0, sod_at |-> 0, now |-> 0,
             now_at |-> 0, used |-> NotUsed]

WindowNext ==
  \/ Window_tick
  \/ Window_enter
  \/ Window_sod
  \/ Window_now
  \/ Window_load
  \/ Window_return

SpecWindow == WindowInit /\ [][WindowNext]_unit

\* the connections of a pass: passes one after the other
ConnInit ==
  /\ MainInit
  /\ unit = [cpc |-> "idle", conns |-> << >>, conn_passes |-> 0]

ConnNext ==
  \/ Conn_call
  \/ Conn_sqlite_ro
  \/ Conn_catalog
  \/ Conn_gravity
  \/ Conn_fallback
  \/ Conn_domains_return
  \/ Conn_return
  \/ Conn_free

SpecConn == ConnInit /\ [][ConnNext]_unit

\* the top lists: passes one after the other under any valid top_n, the
\* appliance logging queries at any moment
TopInit ==
  /\ MainInit
  /\ \E n \in 1 .. MaxTopN :
       unit = [top_n |-> n, queries |-> {}, METRICS |-> NewMetrics, tpc |-> "idle",
               success |-> FALSE, seen |-> NotSeen]

TopNext ==
  \/ Top_enter
  \/ Top_clear
  \/ Top_load
  \/ Top_raise
  \/ Top_finally
  \/ Top_insert

SpecTop == TopInit /\ [][TopNext]_unit

\* main on its own, verbose or not
MainAloneInit ==
  /\ MainInit
  /\ \E verbose \in BOOLEAN :
       unit = [mpc |-> "main", verbose |-> verbose, main_log |-> << >>,
               initial |-> "none", thread |-> "none", server |-> "none",
               aborted_by |-> "none", served |-> 0, loops |-> 0, last_loop |-> "none"]

\* the statements of main up to serve_forever
MainSteps ==
  \/ Main_configure
  \/ Main_initial
  \/ Main_thread_start
  \/ Main_HTTPServer

MainAloneNext ==
  \/ MainSteps
  \/ Main_serve_forever
  \/ Main_scrape_loop

SpecMain == MainAloneInit /\ [][MainAloneNext]_unit

\* the main thread goes on to its next statement (the thread it started
\* does not hold it back)
SpecMainFair == SpecMain /\ WF_unit(MainSteps)

\* PayloadCache on its own: the two threads call its methods at any time
CacheInit ==
  /\ MainInit
  /\ unit = [cache |-> NewCache, cache_lock |-> Free, committed |-> NewCache,
             methods |-> [t \in Threads |-> NoMethod]]

CacheNext ==
  \E t \in Threads :
    \/ Cache_call(t)
    \/ Cache_with(t)
    \/ Cache_set(t)
    \/ Cache_release(t)

SpecCache == CacheInit /\ [][CacheNext]_unit

\* variance on its own, called with any list
VarianceInit ==
  /\ MainInit
  /\ \E v \in ValueLists : unit = [values |-> v, result |-> NoResult]

VarianceNext == Variance_call

SpecVariance == VarianceInit /\ [][VarianceNext]_unit

\* sqlite_ro on its own, called with any path
DbInit ==
  /\ MainInit
  /\ \E p \in DbPaths : unit = [db_path |-> p, dsn |-> << >>, connection |-> NotOpened]

DbNext == Db_sqlite_ro

SpecDb == DbInit /\ [][DbNext]_unit

\* the background loop on its own: started without a stop event (as
\* start_background_scrape does) or with one that is set at any moment
LoopInit ==
  /\ MainInit
  /\ \E stop_event \in {"None", "clear"}, scrape_interval \in 0 .. MaxInterval :
       unit = [loop |-> NewLoop(stop_event, scrape_interval), direct |-> NoCall]

LoopSteps ==
  \/ Loop_start
  \/ Loop_while
  \/ Loop_scrape_and_update
  \/ Loop_sleep
  \/ Loop_wake

LoopNext ==
  \/ LoopSteps
  \/ Stop_set
  \/ Direct_scrape_and_update

SpecLoop == LoopInit /\ [][LoopNext]_unit

\* the thread of the loop is scheduled, and time.sleep returns
SpecLoopFair == SpecLoop /\ WF_unit(LoopSteps)

\* ---- vocabulary of the properties ---------------------------------------
\* positions inside a call of scrape_and_update
PassPcs ==
  {"scrape_and_update", "clear_dynamic_series", "sqlite_ro", "_load_domains_blocked",
   "release", "set_gauges", "record_scrape_result", "update_snapshot"}

\* positions of the aggregation section: from clearing the dynamic series to
\* the end of the domains-blocked lookup
AggregationPcs == {"clear_dynamic_series", "sqlite_ro", "_load_domains_blocked"}

\* positions of the finally block after the lock was released
AfterReleasePcs == {"set_gauges", "record_scrape_result", "update_snapshot"}

InAggregation(t) == pc[t] \in AggregationPcs

NoPassInProgress == \A t \in Threads : pc[t] \notin PassPcs

\* thread t took a step
Stepped(t) == pc'[t] # pc[t]

\* the pass of thread t raised in a sub-step and is in its finally block
HasRaised(t) == pc[t] \in {"release"} \cup AfterReleasePcs /\ success[t] = 0

MetricsPaths == {"/metrics", "/"}

\* a payload whose samples were all written by one pass that completed
\* every sub-step
FromOnePass(payload) ==
  /\ payload # NoPayload
  /\ \E t \in Threads :
       /\ payload[1].sample = [by |-> t, stage |-> "complete"]
       /\ payload[2].sample = [by |-> t]
       /\ payload[3].sample = [by |-> t, val |-> 1]

\* ---- C1 ------------------------------------------------------------------
\* C1: once a sub-step of a pass has raised, no step of that pass changes the
\* published snapshot (payload and timestamp): a failed pass never replaces
\* the snapshot.
C1_FailedPassKeepsSnapshot ==
  [][\A t \in Threads : (HasRaised(t) /\ Stepped(t)) => snapshot' = snapshot]_vars

\* ---- C2 ------------------------------------------------------------------
\* C2: every payload a metrics reader obtains with status 200 is the
\* serialization of the registry as one completed pass left it: all its
\* samples come from the same pass, which ran every sub-step.
C2_PayloadIsOneCompletedPass ==
  (response.path \in MetricsPaths /\ response.status = 200)
    => FromOnePass(response.body)

\* ---- C3 ------------------------------------------------------------------
\* C3: at most one call is inside the aggregation section at a time, the one
\* that holds the lock, and no caller waits for the lock: a call that has
\* reached the lock can always take its next step.
C3_OnePassAtATime ==
  /\ \A t, u \in Threads : (InAggregation(t) /\ InAggregation(u)) => t = u
  /\ \A t \in Threads : InAggregation(t) => SCRAPE_LOCK = t
  /\ \A t \in Threads : pc[t] = "scrape_and_update" => ENABLED scrape_enter(t)

\* a call arrives at the lock while the other thread is inside the section
C3_Contention ==
  \E t, u \in Threads : InAggregation(t) /\ SCRAPE_LOCK = t /\ pc[u] = "scrape_and_update"

C5_WritesHoldLock ==
  [][(registry' # registry \/ scrape_status' # scrape_status)
       => \E t \in Threads : Stepped(t) /\ SCRAPE_LOCK = t]_vars

\* ---- C6 ------------------------------------------------------------------
\* C6: once a snapshot is published, GET /metrics can always be answered at
\* once, also while a pass holds the lock; the answer is sent in one step,
\* is status 200 with the published payload, and the step leaves the lock
\* and the position of every pass as they were.
C6_WarmMetricsNeverWaits ==
  /\ [](\A p \in MetricsPaths :
          (pc["main"] = "serve" /\ snapshot.payload # NoPayload) => ENABLED do_GET(p))
  /\ [][\A p \in MetricsPaths :
          (pc["main"] = "serve" /\ snapshot.payload # NoPayload /\ response'.path = p)
            => /\ response'.status = 200
               /\ response'.body = snapshot.payload
               /\ response'.refresh = "none"
               /\ SCRAPE_LOCK' = SCRAPE_LOCK
               /\ pc' = pc
               /\ numCalls' = numCalls]_vars

\* /metrics was answered with status 200 while the background pass holds the
\* lock
C6_ServedDuringPass ==
  /\ response.path = "/metrics" /\ response.status = 200
  /\ SCRAPE_LOCK = "bg" /\ InAggregation("bg")

\* ---- C7 ------------------------------------------------------------------
\* C7: whenever no pass is in progress, the pihole_scrape_success gauge and
\* the recorded scrape result both equal the outcome of the pass that ran
\* most recently: 1 if it completed every sub-step, 0 if it raised.
C7_FlagIsLastOutcome ==
  (NoPassInProgress /\ lastOutcome \in {"ok", "failed"})
    => LET flag == IF lastOutcome = "ok" THEN 1 ELSE 0
       IN  /\ scrape_status.success = flag
           /\ registry.pihole_scrape_success.val = flag

\* ---- C8 ------------------------------------------------------------------
\* C8: when no pass is in progress, /healthz answers 200 "ok" exactly when
\* the most recent pass succeeded and the snapshot is at most
\* 2 x scrape_interval old; it answers 503 "last scrape failed" when the most
\* recent pass failed and 503 "snapshot too old" when the pass succeeded but
\* the snapshot is older.
C8_HealthIsLastOutcomeAndAge ==
  (response.path = "/healthz" /\ NoPassInProgress)
    => LET fresh == now - snapshot.timestamp <= 2 * ScrapeInterval
       IN  /\ response.status \in {200, 503}
           /\ response.status = 200 <=> (lastOutcome = "ok" /\ fresh)
           /\ response.status = 200 => response.body = "ok"
           /\ lastOutcome = "failed" => response.body = "last scrape failed"
           /\ (lastOutcome = "ok" /\ ~fresh) => response.body = "snapshot too old"

\* ---- C9 ------------------------------------------------------------------
\* C9: the readiness check says not-ready as long as no pass has succeeded,
\* says ready once a successful pass has returned, never goes back from
\* ready to not-ready, and /readyz sends what the check says (200 "ready" or
\* 503 "waiting for first successful scrape").
C9_ReadyAfterFirstSuccess ==
  /\ [](/\ okPass = "none" => ~get_ready.ok
        /\ okPass = "returned" => get_ready.ok
        /\ response.path = "/readyz" =>
             /\ response.status = IF get_ready.ok THEN 200 ELSE 503
             /\ response.body =
                  IF get_ready.ok THEN "ready" ELSE "waiting for first successful scrape")
  /\ [][scrape_status.last_success > 0 => scrape_status'.last_success > 0]_vars

\* /readyz answers 200 although the most recent pass failed, because an
\* earlier pass succeeded
C9_ReadyAfterLaterFailure ==
  /\ response.path = "/readyz" /\ response.status = 200
  /\ okPass = "returned" /\ lastOutcome = "failed" /\ scrape_status.success = 0

\* ---- C10 -----------------------------------------------------------------
\* C10 (as the code has it): GET /metrics with no published snapshot is
\* answered only after a refresh was attempted; when that refresh raises the
\* answer is 500 with a plain-text error body; 503 is the answer when the
\* refresh returned and there is still no payload; 200 is never sent with an
\* empty payload.
C10_ColdStartRefresh ==
  response.path \in MetricsPaths
    => /\ response.refresh = "none" => snapshot.payload # NoPayload
       /\ response.refresh = "failed" =>
            /\ response.status = 500
            /\ response.ctype = "text/plain"
            /\ response.body = "scrape failed"
       /\ response.status = 503 =>
            /\ response.refresh \in {"ran", "skipped"}
            /\ snapshot.payload = NoPayload
            /\ response.ctype = "text/plain"
       /\ response.status = 200 =>
            /\ response.body # NoPayload
            /\ response.body = snapshot.payload

\* the refresh of a cold-start request raised and the request was answered
C10_RefreshRaised ==
  response.path = "/metrics" /\ response.refresh = "failed" /\ lastOutcome = "failed"

\* C10 as the claim states it: when the refresh fails the response is 503
C10_RefreshFailureIs503 ==
  (response.path \in MetricsPaths /\ response.refresh = "failed")
    => response.status = 503

\* ---- C11 -----------------------------------------------------------------
\* C11: for every request path, "/metrics" and "/" with a non-empty snapshot
\* are answered 200 with the snapshot's payload as the body, byte for byte,
\* and its length as Content-Length; "/healthz" and "/readyz" are answered 200
\* or 503; any other path is answered 404 and get_snapshot is not called (so
\* the snapshot is not read and no refresh is triggered).
C11_PathsAnswered ==
  sent # Unsent =>
    LET got == request.get_snapshot
    IN  /\ (request.path \in MetricsPaths /\ ~got.raises /\ got.snapshot.payload # NoPayload)
             => /\ sent.status = 200
                /\ sent.body = got.snapshot.payload
                /\ sent.length = Len(got.snapshot.payload)
        /\ request.path \in {"/healthz", "/readyz"} => sent.status \in {200, 503}
        /\ request.path \notin MetricsPaths \cup {"/healthz", "/readyz"}
             => /\ sent.status = 404
                /\ sent.get_snapshot_calls = 0

\* the alias "/" was answered with a payload of the greatest length
C11_LongestPayloadServed ==
  /\ request.path = "/" /\ sent.status = 200
  /\ Len(sent.body) = MaxPayload /\ sent.length = MaxPayload

\* ---- C12 -----------------------------------------------------------------
\* C12: when a write of the response raises BrokenPipeError or
\* ConnectionResetError, on /metrics, /, /healthz or /readyz and whatever the
\* status, do_GET returns normally, has sent one response only and has
\* logged nothing it would not have logged for a client that stayed.
C12_DisconnectSwallowed ==
  (sent # Unsent /\ request.disconnect \in {"BrokenPipeError", "ConnectionResetError"}
     /\ request.path \in MetricsPaths \cup {"/healthz", "/readyz"})
    => /\ sent.do_GET = "returned"
       /\ sent.responses = 1
       /\ sent.log \in {"debug", Handler([request EXCEPT !.disconnect = "no"]).log}

\* ---- C13 -----------------------------------------------------------------
\* the pass has got through its try block and has not been followed by
\* another
PassSucceeded == ppc \in {"finally", "idle"} /\ frame.success = 1

\* the labels of a series of the registry m
Labels(m, g) == DOMAIN m.gauges[g]

\* C13: after a pass that completed successfully the labels of each top
\* list are the groups its query returned in this pass, and the labels of the
\* per-destination count, response time and variance are the groups of this
\* pass's forward query with the two synthetic destinations the pass always
\* sets; the values are the counts of this pass; once published, the
\* snapshot is this registry.
C13_DynamicSeriesOfThisPass ==
  PassSucceeded =>
    /\ METRICS.gauges["pihole_top_ads"] = SetAll(NoSamples, frame.top_ads)
    /\ METRICS.gauges["pihole_top_queries"] = SetAll(NoSamples, frame.top_queries)
    /\ METRICS.gauges["pihole_top_sources"] = SetAll(NoSamples, frame.top_sources)
    /\ \A g \in {"pihole_forward_destinations",
                  "pihole_forward_destinations_responsetime",
                  "pihole_forward_destinations_responsevariance"} :
         Labels(METRICS, g) = DOMAIN frame.forwards \cup {"cache", "blocklist"}
    /\ \A d \in DOMAIN frame.forwards :
         METRICS.gauges["pihole_forward_destinations"][d] = frame.forwards[d]
    /\ ppc = "idle" => published.exists /\ published.metrics = METRICS

\* a destination and a domain the previous pass published have no row in
\* this successful pass and are gone
C13_EarlierLabelGone ==
  /\ ppc = "finally"
  /\ frame.success = 1
  /\ published.exists
  /\ "1.1.1.1" \in Labels(published.metrics, "pihole_forward_destinations")
  /\ "1.1.1.1" \notin Labels(METRICS, "pihole_forward_destinations")
  /\ "example.com" \in Labels(published.metrics, "pihole_top_queries")
  /\ "example.com" \notin Labels(METRICS, "pihole_top_queries")

\* ---- C14 -----------------------------------------------------------------
\* C14: clear_dynamic_series leaves the six dynamic series (top ads, top
\* queries, top sources, forward destinations, their response time and
\* variance) without a label set and changes no other gauge, nor the lifetime
\* totals, nor the lifetime per-destination counter, nor the baseline of the
\* rate tracker.
C14_ClearFrame ==
  [][(ppc = "clear_dynamic_series" /\ ppc' = "sqlite_ro") =>
       /\ \A g \in {"pihole_top_ads", "pihole_top_queries", "pihole_top_sources",
                     "pihole_forward_destinations",
                     "pihole_forward_destinations_responsetime",
                     "pihole_forward_destinations_responsevariance"} :
            Labels(METRICS', g) = {}
       /\ \A g \in GaugeNames \
                    {"pihole_top_ads", "pihole_top_queries", "pihole_top_sources",
                     "pihole_forward_destinations",
                     "pihole_forward_destinations_responsetime",
                     "pihole_forward_destinations_responsevariance"} :
            METRICS'.gauges[g] = METRICS.gauges[g]
       /\ METRICS'.state = METRICS.state
       /\ METRICS'.forward_destinations_lifetime = METRICS.forward_destinations_lifetime]_unit

\* a clear has just run on a registry that held top lists, destinations,
\* other gauges, lifetime totals and lifetime destinations
C14_ClearedAFullRegistry ==
  /\ ppc = "sqlite_ro"
  /\ published.exists
  /\ \A g \in DynamicSeries : Labels(published.metrics, g) # {} /\ Labels(METRICS, g) = {}
  /\ Labels(METRICS, "pihole_querytypes") # {}
  /\ Labels(METRICS, "pihole_dns_queries_today") # {}
  /\ METRICS.state.total_queries_lifetime > 0
  /\ DOMAIN METRICS.forward_destinations_lifetime # {}

\* ---- C15 -----------------------------------------------------------------
\* the cumulative counters as a snapshot publishes them (PiholeTotalsCollector
\* reads the lifetime totals when the registry is serialized)
pihole_dns_queries_total(p) == p.metrics.state.total_queries_lifetime
pihole_ads_blocked_total(p) == p.metrics.state.blocked_queries_lifetime

\* C15: from one published snapshot to the next, pihole_dns_queries_total
\* and pihole_ads_blocked_total do not decrease, whatever the counters table
\* of the source holds at each pass.
C15_CountersNeverDecrease ==
  [][(published.exists /\ published'.exists) =>
       /\ pihole_dns_queries_total(published') >= pihole_dns_queries_total(published)
       /\ pihole_ads_blocked_total(published') >= pihole_ads_blocked_total(published)]_unit

\* ---- C16 -----------------------------------------------------------------
\* the value of an unlabelled-by-host gauge of a snapshot, 0 while it has no
\* sample
Value(p, g) == IF Host \in Labels(p.metrics, g) THEN p.metrics.gauges[g][Host] ELSE 0

\* the source satisfies total >= blocked in its counters and in its rows
SourceConsistent ==
  /\ source.counters.total >= source.counters.blocked
  /\ Cardinality(source.queries) >= CountStatus(source.queries, BLOCKED_STATUSES)

\* C16: in every published snapshot the lifetime total is at least the
\* lifetime blocked count and pihole_dns_queries_today is at least
\* pihole_ads_blocked_today, the source satisfying total >= blocked at all
\* times and the appliance writing between the reads of the pass.
C16_TotalAtLeastBlocked ==
  (SourceConsistent /\ published.exists) =>
    /\ pihole_dns_queries_total(published) >= pihole_ads_blocked_total(published)
    /\ Value(published, "pihole_dns_queries_today") >= Value(published, "pihole_ads_blocked_today")

\* ---- C17 -----------------------------------------------------------------
\* the names of a static code map
Names(map) == {map[k] : k \in DOMAIN map}

\* the breakdown gauge holds the names of the map, each with the count of
\* its code in the rows the query returned, 0 for a code without rows
BreakdownOf(gauge, map, rows) ==
  /\ DOMAIN gauge = Names(map)
  /\ \A k \in DOMAIN map :
       gauge[map[k]] = IF k \in DOMAIN rows THEN rows[k] ELSE 0

\* C17: after every pass, the published type breakdown has exactly the
\* names of the type-code map as labels and the published reply breakdown
\* exactly the names of the reply-code map.
C17_BreakdownLabelsEveryPass ==
  published.exists =>
    /\ Labels(published.metrics, "pihole_querytypes") = Names(QUERY_TYPE_MAP)
    /\ Labels(published.metrics, "pihole_reply") = Names(REPLY_TYPE_MAP)

\* the same for the passes that ran the two loaders: in a pass past
\* _load_reply_types both breakdowns hold the names of their maps with the
\* counts of the rows read by this pass, whatever the rows (NULL reply codes
\* and codes outside the maps included)
C17_BreakdownAfterLoaders ==
  (ppc \in {"_load_forwarded_cached", "_load_forward_destinations",
            "_load_synthetic_destinations", "_load_top_lists",
            "_load_domains_blocked"} \/ PassSucceeded) =>
    /\ BreakdownOf(METRICS.gauges["pihole_querytypes"], QUERY_TYPE_MAP, frame.types)
    /\ BreakdownOf(METRICS.gauges["pihole_reply"], REPLY_TYPE_MAP, frame.replies)

\* a pass has read a row with a NULL reply code and a type code outside the
\* map, and completed
C17_NullAndUnknownCodesRead ==
  /\ PassSucceeded
  /\ NULL \in DOMAIN frame.replies
  /\ 99 \in DOMAIN frame.types
  /\ 99 \in DOMAIN frame.replies

\* ---- C18 -----------------------------------------------------------------
\* C18: a pass whose catalog on the primary source succeeded goes through
\* _load_domains_blocked without an exception and is marked successful, and
\* pihole_domains_being_blocked is then the gravity row count of the
\* supplementary source if that is readable, else the domain_by_id row count
\* of the primary source if that is readable, else 0.
C18_DomainsBlockedFallback ==
  [][(ppc = "_load_domains_blocked" /\ ppc' # ppc) =>
       /\ ppc' = "finally"
       /\ frame'.success = 1
       /\ Labels(METRICS', "pihole_domains_being_blocked") = {Host}
       /\ METRICS'.gauges["pihole_domains_being_blocked"][Host] =
            IF frame'.gravity_readable THEN source.gravity
            ELSE IF frame'.ftl_readable THEN source.domain_by_id
            ELSE 0]_unit

\* a pass in which neither source could be read for the count is successful
\* and has set the gauge to 0, after a pass that had set it from gravity
C18_BothUnreadable ==
  /\ PassSucceeded
  /\ ~frame.gravity_readable
  /\ ~frame.ftl_readable
  /\ METRICS.gauges["pihole_domains_being_blocked"][Host] = 0
  /\ published.exists
  /\ Value(published, "pihole_domains_being_blocked") = source.gravity

\* ---- C19 -----------------------------------------------------------------
\* the gauge has been set, to 0.0
IsZero(r) == r.num = 0 /\ r.den > 0

\* C19: after the first update since the tracker was constructed or reset,
\* the rate gauge is 0.0 and the call has raised nothing, whatever the
\* database holds and whether or not it could be read.
C19_FirstUpdateIsZero ==
  last_update.nth = 1 => IsZero(request_rate) /\ ~last_update.raised

\* the first update after a reset found a database with queries in it that
\* it could not read
C19_FirstAfterResetUnreadable ==
  /\ last_update.nth = 1
  /\ last_update.resets = 1
  /\ last_update.total = NULL
  /\ last_update.before = NewTracker
  /\ ftl.total > 0
  /\ ftl.rows > 0
  /\ IsZero(request_rate)

\* ---- C20 -----------------------------------------------------------------
\* the last two calls of update were made since construction or reset and
\* read lifetime totals total1 < total2
TotalsIncreased ==
  /\ last_update.nth = 2
  /\ last_update.previous_total # NULL
  /\ last_update.total # NULL
  /\ last_update.previous_total < last_update.total

\* max(1, t2 - t1) in ticks, t1 and t2 the times of the last two calls
FlooredTicks ==
  LET dt == tracker.last_request_ts - last_update.before.last_request_ts
  IN  IF dt < TicksPerSecond THEN TicksPerSecond ELSE dt

\* the rate gauge is delta queries per floored second
RateIs(delta) == request_rate.num * FlooredTicks = delta * TicksPerSecond * request_rate.den

\* the last call counted the rows beyond the previous maximum of the cursor
CursorMode ==
  /\ last_update.cursor_col # ""
  /\ last_update.before.last_request_rowid # NULL
  /\ last_update.latest_cursor # NULL
  /\ last_update.latest_cursor > last_update.before.last_request_rowid

\* C20 as stated: after two consecutive computations at t1 and t2 that read
\* totals total1 < total2, the rate gauge is (total2 - total1) / max(1, t2 - t1).
C20_RateIsTotalDelta ==
  TotalsIncreased =>
    /\ request_rate.den > 0
    /\ RateIs(last_update.total - last_update.previous_total)

\* C20 as the code has it: the divisor is max(1, t2 - t1), so 1 whenever
\* t2 - t1 < 1 and when t2 <= t1; the dividend is total2 - total1 unless the
\* event table has a row-identifier cursor whose maximum advanced since the
\* previous computation, and then it is the number of rows beyond the
\* previous maximum (0 if counting them fails).
C20_RateIsDeltaOverFlooredTime ==
  TotalsIncreased =>
    /\ request_rate.den = FlooredTicks
    /\ IF CursorMode
         THEN /\ RateIs(last_update.counted)
              /\ last_update.counted \in
                   {0, last_update.latest_cursor - last_update.before.last_request_rowid}
         ELSE RateIs(last_update.total - last_update.previous_total)

\* the total went up between two calls of which the second was made at an
\* earlier time than the first, without a row beyond the cursor: the rate
\* is the difference of the totals over one second
C20_EarlierSecondCall ==
  /\ TotalsIncreased
  /\ ~CursorMode
  /\ tracker.last_request_ts < last_update.before.last_request_ts
  /\ request_rate = [num |-> (last_update.total - last_update.previous_total) * TicksPerSecond,
                     den |-> TicksPerSecond]

\* ---- C21 -----------------------------------------------------------------
\* the last call of update read a lifetime total below the baseline it found
LowerTotalRead ==
  /\ last_update.nth > 0
  /\ last_update.total # NULL
  /\ last_update.before.last_request_total # NULL
  /\ last_update.total < last_update.before.last_request_total

\* C21: the rate gauge is never negative, whatever the calls of update and
\* whatever the appliance does in between; when a call reads a lifetime total
\* below its baseline (the appliance started again), the delta that enters
\* the rate is not negative (0, or the rows counted beyond the cursor) and
\* the lower total is the baseline the next call finds.
C21_RateNeverNegative ==
  /\ request_rate.num >= 0
  /\ request_rate.den >= 0
  /\ last_update.nth > 0 => request_rate.den > 0
  /\ LowerTotalRead =>
       /\ tracker.last_request_total = last_update.total
       /\ request_rate.num =
            (IF CursorMode THEN last_update.counted ELSE 0) * TicksPerSecond

\* a call that had a time baseline read a total below the total baseline,
\* set the rate to 0 and left the lower total as the baseline
C21_LowerTotalBecameBaseline ==
  /\ LowerTotalRead
  /\ last_update.before.last_request_ts # NULL
  /\ last_update.before.last_request_total = MaxTotal
  /\ last_update.total = 0
  /\ IsZero(request_rate)
  /\ tracker.last_request_total = 0

\* ---- C22 -----------------------------------------------------------------
\* max(0, total - baseline) of the last call, 0 when either is missing
CounterDelta ==
  IF last_update.before.last_request_total # NULL /\ last_update.total # NULL
       /\ last_update.total > last_update.before.last_request_total
    THEN last_update.total - last_update.before.last_request_total
    ELSE 0

RowsBeyondStored == last_update.latest_cursor - last_update.before.last_request_rowid

\* the last call computed a rate (it found a time baseline)
RateComputed == last_update.nth > 0 /\ last_update.before.last_request_ts # NULL

\* C23 as stated: when a cursor is available and its maximum has advanced,
\* the delta of the rate is the number of rows beyond the previous maximum
\* and the stored maximum becomes the new maximum; otherwise the delta is
\* the lifetime-counter delta.
C23_DeltaIsRowsBeyond ==
  RateComputed =>
    IF CursorMode
      THEN /\ RateIs(RowsBeyondStored)
           /\ tracker.last_request_rowid = last_update.latest_cursor
      ELSE RateIs(CounterDelta)

\* C23 as the code has it: when a cursor is available and its maximum has
\* advanced beyond the stored maximum, the delta of the rate is the number
\* of rows beyond the stored maximum, or 0 when counting them raises, and
\* the stored maximum becomes the new maximum either way; otherwise the
\* delta is the lifetime-counter delta.
C23_DeltaIsRowsCounted ==
  RateComputed =>
    IF CursorMode
      THEN /\ RateIs(last_update.counted)
           /\ last_update.counted \in {0, RowsBeyondStored}
           /\ RowsBeyondStored > 0
           /\ tracker.last_request_rowid = last_update.latest_cursor
      ELSE RateIs(CounterDelta)

\* a row arrived on a table with an id column while the lifetime total
\* stood still: the rate is one row over the floored time and the stored
\* maximum has moved to the new row
C23_RowCountedTotalStill ==
  /\ RateComputed
  /\ CursorMode
  /\ ftl.schema = "id"
  /\ last_update.total # NULL
  /\ last_update.total = last_update.before.last_request_total
  /\ last_update.counted = 1
  /\ request_rate.num = TicksPerSecond
  /\ tracker.last_request_rowid = ftl.rows

\* ---- C24 -----------------------------------------------------------------
\* C24: a pass of the background loop that raises does not end the loop:
\* whatever the outcome of the pass, the loop goes on to take the time,
\* sleeps at least a second, comes back to the top and, unless the stop
\* event is set, starts another pass; a direct call of scrape_and_update
\* that raises is seen to raise by its caller.
C24_LoopSurvivesExceptions ==
  [][/\ loop'.pc # "raised"
     /\ loop.pc = "scrape_and_update" /\ loop'.pc # loop.pc =>
          loop'.pc = "elapsed" /\ loop'.outcome \in Outcomes
     /\ loop.pc = "elapsed" /\ loop'.pc # loop.pc =>
          loop'.pc = "sleep" /\ loop'.slept >= 1
     /\ loop.pc = "sleep" /\ loop'.pc # loop.pc => loop'.pc = "while"
     /\ loop.pc = "while" /\ loop.stop_event # "set" /\ loop'.pc # loop.pc =>
          loop'.pc = "scrape_and_update" /\ loop'.runs = loop.runs + 1
     /\ direct'.seen = direct'.outcome]_unit

\* the first pass of the loop raised and the second is running; a direct
\* call raised to its caller
C24_PassAfterRaisedPass ==
  /\ loop.runs = 2
  /\ loop.pc = "scrape_and_update"
  /\ loop.outcome = "raised"
  /\ direct.outcome = "raised"
  /\ direct.seen = "raised"

\* ---- C25 -----------------------------------------------------------------
\* I = max(1, scrape_interval)
IntervalFloored == IF loop.scrape_interval > 1 THEN loop.scrape_interval ELSE 1

\* C25: the sleep after a background pass is max(1, I - elapsed) seconds
\* with I = max(1, scrape_interval) and elapsed the time the pass took by
\* time_fn; it is never shorter than 1 second, and a further pass starts
\* only after a sleep of at least 1 second has returned.
C25_SleepAtLeastOneSecond ==
  /\ loop.pc = "sleep" =>
       /\ loop.slept = (IF IntervalFloored - loop.elapsed > 1
                          THEN IntervalFloored - loop.elapsed ELSE 1)
       /\ loop.slept >= 1
  /\ loop.runs >= 2 => loop.spacing >= 1

\* after its second pass, which took a second of an interval of three, the
\* loop sleeps two seconds; the second pass was started a second or more
\* after the first
C25_SleepsTheRemainder ==
  /\ loop.pc = "sleep"
  /\ loop.runs = 2
  /\ loop.scrape_interval = 3
  /\ loop.elapsed = 1
  /\ loop.slept = 2
  /\ loop.spacing >= 1

\* ---- C26 -----------------------------------------------------------------
\* C26: once the stop event is set the loop starts no further pass; a pass
\* in flight at that moment is not cut short (it returns or raises, and the
\* loop goes on to take the time); the loop then returns when it comes back
\* to the top of its while; and when the event is set before the thread of
\* the loop has started, no pass runs at all.
C26_StopEndsLoop ==
  /\ [](loop.stop_event = "set" => loop.runs = loop.stop_at.runs)
  /\ [](loop.stop_at.pc = "not_started" => loop.runs = 0)
  /\ [][loop.pc = "scrape_and_update" /\ loop'.pc # loop.pc =>
          loop'.pc = "elapsed" /\ loop'.outcome \in Outcomes]_unit
  /\ [][loop.pc \in {"elapsed", "sleep"} /\ loop'.pc = "returned" => FALSE]_unit
  /\ (loop.stop_event = "set" ~> loop.pc = "returned")

\* the stop event was set while the first pass was in flight; the pass
\* raised, the loop slept and returned without a second pass
C26_StoppedDuringPass ==
  /\ loop.stop_at = [pc |-> "scrape_and_update", runs |-> 1]
  /\ loop.outcome = "raised"
  /\ loop.slept >= 1
  /\ loop.pc = "returned"
  /\ loop.runs = 1

\* ---- C27 -----------------------------------------------------------------
\* C27: every connection sqlite_ro returns is opened read-only: a plain
\* path is percent-escaped into "file:" path "?mode=ro" (and names the file
\* of the path), a path that begins with "file:" is handed on as it is.
C27_EveryConnectionReadOnly ==
  connection.opened =>
    /\ connection.mode = "ro"
    /\ IF startswith_file(db_path)
         THEN unit.dsn = db_path
         ELSE /\ unit.dsn = << "file:" >> \o quote(db_path) \o << "?", "mode=ro" >>
              /\ connection.filename = db_path

\* what holds: a plain path is opened read-only and names its file, and a
\* locator is opened in the mode it asks for itself
PlainPathsReadOnly ==
  connection.opened =>
    IF startswith_file(db_path)
      THEN unit.dsn = db_path
      ELSE /\ unit.dsn = << "file:" >> \o quote(db_path) \o << "?", "mode=ro" >>
           /\ connection.filename = db_path
           /\ connection.mode = "ro"

\* a locator without a mode parameter has been opened for reading, writing
\* and creating
LocatorOpenedWritable ==
  /\ connection.opened
  /\ db_path = << "file:", "/", "db" >>
  /\ connection.mode = "rwc"

\* ---- C28 -----------------------------------------------------------------
\* the samples of pihole_forward_destinations_total in the registry m
pihole_forward_destinations_total(m) == m.forward_destinations_lifetime

\* the forwarding targets of the rows of Q that were forwarded
Targets(Q) == {r.forward : r \in {x \in Q : x.status = 2 /\ x.forward # NoForward}}

\* one sample per forwarding target of Q with the number of its forwarded
\* rows, and the samples "cache" and "blocklist"
LifetimeBreakdownOf(samples, Q) ==
  /\ DOMAIN samples = Targets(Q) \cup {"cache", "blocklist"}
  /\ \A d \in Targets(Q) :
       samples[d] = Cardinality({r \in Q : r.status = 2 /\ r.forward = d})
  /\ samples["cache"] = Cardinality({r \in Q : r.status = 3})
  /\ samples["blocklist"] = Cardinality({r \in Q : r.status \in BLOCKED_STATUSES})

Today(g) == METRICS.gauges[g][Host]

\* C29: after every successful pass pihole_ads_percentage_today is 0.0 when
\* the total of today that the pass read is 0, whatever the blocked count of
\* today it read, and blocked / total x 100 otherwise; the division is never
\* by zero.
C29_PercentageToday ==
  PassSucceeded =>
    /\ Today("pihole_ads_percentage_today").den # 0
    /\ IF Today("pihole_dns_queries_today") = 0
         THEN Today("pihole_ads_percentage_today") = [num |-> 0, den |-> 1]
         ELSE Today("pihole_ads_percentage_today").num * Today("pihole_dns_queries_today") =
                Today("pihole_ads_blocked_today") * 100
                  * Today("pihole_ads_percentage_today").den

\* a successful pass counted no query of today and then, the appliance
\* having logged a blocked query in between, one blocked query of today:
\* the percentage is 0.0
C29_BlockedWithoutTotal ==
  /\ PassSucceeded
  /\ Today("pihole_dns_queries_today") = 0
  /\ Today("pihole_ads_blocked_today") = 1
  /\ Today("pihole_ads_percentage_today") = [num |-> 0, den |-> 1]

\* ---- C30 -----------------------------------------------------------------
\* the sum of the squares of a list
SumOfSquares(s) == SumSeq([i \in DOMAIN s |-> s[i] * s[i]])

\* all elements of a list are the same
Constant(s) == \A i \in DOMAIN s : s[i] = s[1]

\* C30: variance(values) is the population variance, the mean of the squares
\* less the square of the mean (divisor count, not count - 1); 0.0 for an
\* empty list, 0.0 for a list of one element or of equal elements, 2/3 for
\* [1, 2, 3].
C30_PopulationVariance ==
  unit.result.called =>
    LET n == Len(unit.values)
        total == SumSeq(unit.values)
    IN  /\ unit.result.den > 0
        /\ n = 0 => unit.result.num = 0
        /\ n > 0 =>
             unit.result.num * n * n =
               (n * SumOfSquares(unit.values) - total * total) * unit.result.den
        /\ n > 0 /\ Constant(unit.values) => unit.result.num = 0
        /\ unit.values = << 1, 2, 3 >> => unit.result.num * 3 = 2 * unit.result.den

\* variance([1, 2, 3]) has been computed and is 2/3
C30_SimpleSeries ==
  /\ unit.result.called
  /\ unit.values = << 1, 2, 3 >>
  /\ unit.result.num * 3 = 2 * unit.result.den
  /\ unit.result.num > 0

\* ---- C31 -----------------------------------------------------------------
\* C31: a call of scrape_and_update that acquired the lock has released it
\* when it has returned or raised, on every exit path, and no call is
\* skipped because of a call that has finished.
C31_LockReleasedOnEveryExit ==
  /\ \A t \in Threads : calls[t].pc = "idle" => held # t
  /\ ~unit.starved

\* what holds: a call that reached its try block has released the lock when
\* it returns or raises
ReleasedAfterTry ==
  [][\A t \in Threads :
       calls[t].pc = "finally" /\ calls'[t].pc = "idle" => held = t /\ held' = Free]_unit

\* a call raised before its try block and a later call of the other thread
\* was skipped, no call being in progress
SkippedAfterFinishedCall ==
  /\ calls["main"] = [pc |-> "idle", outcome |-> "raised", pending |-> "none"]
  /\ held = "main"
  /\ calls["bg"] = [pc |-> "idle", outcome |-> "skipped", pending |-> "none"]
  /\ unit.starved

\* ---- C32 -----------------------------------------------------------------
\* C32: whenever no method is inside the cache, its payload and timestamp
\* are those given to the latest set and its last_error is None or the
\* message of a set_error that came after that set (set_error has left
\* payload and timestamp alone); and what get returns is the payload and
\* last_error of such a moment, never the payload of a set with the
\* last_error that set had still to clear.
C32_SetIsOneStep ==
  /\ unit.cache_lock = Free => cache = unit.committed
  /\ \A t \in Threads :
       methods[t].got =>
         methods[t].value = [payload |-> methods[t].at_read.payload,
                             last_error |-> methods[t].at_read.last_error]

\* a get has returned the payload of a second set together with the error
\* recorded after it, while the other thread waits for the lock with a third
\* set
C32_GetAfterSetAndError ==
  /\ methods["main"].got
  /\ methods["main"].value = [payload |-> 2, last_error |-> "boom"]
  /\ cache = [payload |-> 2, timestamp |-> 1, last_error |-> "boom"]
  /\ methods["bg"].op = "set"
  /\ methods["bg"].pc = "with"

\* ---- C33 -----------------------------------------------------------------
\* C33: after every call of update the count baselines the tracker holds
\* are as new as its time baseline: a stored lifetime total is the total
\* that call read, and a stored row cursor is the cursor that call read.
C33_BaselinesFromOneCall ==
  last_update.nth > 0 =>
    /\ tracker.last_request_ts # NULL
    /\ tracker.last_request_total # NULL =>
         /\ last_update.total # NULL
         /\ tracker.last_request_total = last_update.total
    /\ tracker.last_request_rowid # NULL =>
         /\ last_update.cursor_read
         /\ tracker.last_request_rowid = last_update.latest_cursor

\* the case of the claim has happened and the next rate is wrong by it: a
\* call read nothing and kept the total of the call before it, and the call
\* after it put the queries that came before the failed call into its rate
C33_RateFromOlderBaseline ==
  /\ last_update.nth = 2
  /\ last_update.before.last_request_total # NULL
  /\ last_update.previous_total = NULL
  /\ last_update.total # NULL
  /\ last_update.total > last_update.before.last_request_total
  /\ ~CursorAdvanced(last_update.before, [cursor_col |-> last_update.cursor_col,
                                          latest_cursor |-> last_update.latest_cursor])
  /\ request_rate.num > 0

\* ---- C34 -----------------------------------------------------------------
\* C34: every query of the today window a pass has run so far was given the
\* day start the pass read once at its entry, and every query of the
\* trailing window the now the pass read once at its entry less a day,
\* wherever the clock is by then.
C34_OneDayStartOneNow ==
  \A step \in DOMAIN used :
    used[step].run =>
      used[step].since = IF step \in TodaySteps
                           THEN start_of_day_ts(unit.sod_at)
                           ELSE now_ts(unit.now_at) - DayLength

\* midnight came between the first and the last today query of a pass, and
\* the trailing window was queried some seconds after now was read
C34_MidnightDuringPass ==
  /\ wpc = "_load_domains_blocked"
  /\ used["_load_queries_today"].since = used["_load_top_lists"].since
  /\ start_of_day_ts(wall) > used["_load_top_lists"].since
  /\ used["_load_unique_counts"].since = unit.now_at - DayLength
  /\ wall > unit.now_at

\* ---- C35 -----------------------------------------------------------------
\* the count of a destination in a snapshot, 0 while it has no sample
Destination(p, d) ==
  IF d \in Labels(p.metrics, "pihole_forward_destinations")
    THEN p.metrics.gauges["pihole_forward_destinations"][d] ELSE 0

\* C35: in every snapshot published by a successful pass the count of the
\* synthetic destination cache is the value of pihole_queries_cached and
\* the count of the synthetic destination blocklist is the value of
\* pihole_ads_blocked_today, the appliance writing between the queries of
\* the pass.
C35_SyntheticMatchesToday ==
  (published.exists /\ published.success = 1) =>
    /\ Destination(published, "cache") = Value(published, "pihole_queries_cached")
    /\ Destination(published, "blocklist") = Value(published, "pihole_ads_blocked_today")

\* a successful pass during which the appliance did not write published
\* equal counts, one cached and one blocked query among them
C35_QuietPassMatches ==
  /\ published.exists
  /\ published.success = 1
  /\ Destination(published, "cache") = 1
  /\ Value(published, "pihole_queries_cached") = 1
  /\ Destination(published, "blocklist") = 1
  /\ Value(published, "pihole_ads_blocked_today") = 1

\* ---- C36 -----------------------------------------------------------------
\* C36: do_GET has sent exactly one status line for the request; when the
\* status 200 was sent for /metrics or /, no 500 follows it, whatever the
\* write of the body raised.
C36_OneStatusLine ==
  sent # Unsent =>
    /\ sent.responses = 1
    /\ (request.path \in MetricsPaths /\ sent.status = 200) => sent.second = 0

\* the claim for the two exceptions of a client that has gone: one status
\* line
C36_OneStatusLineWhenClientGone ==
  (sent # Unsent /\ request.disconnect # "Exception") =>
    /\ sent.responses = 1
    /\ sent.second = 0

\* a 500 response was sent after the 200 status line of /metrics
C36_SecondResponse ==
  /\ request.path = "/metrics"
  /\ sent.status = 200
  /\ sent.second = 500
  /\ sent.responses = 2

\* ---- C37 -----------------------------------------------------------------
\* C37: once the pass has returned none of the connections it opened is
\* open, and the connection to the supplementary source (the gravity
\* database) was opened with the primary connection of the catalog closed.
C37_ConnectionsReleasedPerBatch ==
  /\ cpc = "idle" => \A i \in DOMAIN conns : ~IsOpen(conns[i])
  /\ \A i \in DOMAIN conns : conns[i].db = "gravity_db_path" => ~conns[i].primary_open

\* the second half alone: it fails whatever the interpreter does
C37_PrimaryReleasedFirst ==
  \A i \in DOMAIN conns : conns[i].db = "gravity_db_path" => ~conns[i].primary_open

\* what holds: every connection of a pass is without a name once the pass
\* has returned, so that the interpreter can free it
C37_NoneNamedAfterReturn ==
  cpc = "idle" => \A i \in DOMAIN conns : conns[i].state # "named"

\* a pass has returned and its three connections are still open
C37_OpenAfterReturn ==
  /\ cpc = "idle"
  /\ Len(conns) = 3
  /\ \A i \in DOMAIN conns : conns[i].state = "garbage"

\* ---- C38 -----------------------------------------------------------------
\* the groups of a top list's query that the list does not hold
LeftOut(list) == DOMAIN seen[list] \ Labels(METRICS, list)

\* C38: after a successful pass each of the three top lists holds at most
\* top_n label sets, all of them groups of its query with their counts, and
\* no group the query left out has a greater count than a group of the
\* list (the counts are those of today's rows when the query ran).
C38_TopListsAreTop ==
  (tpc = "idle" /\ unit.success) =>
    \A i \in DOMAIN TopLists :
      LET list == TopLists[i]
      IN  /\ Cardinality(Labels(METRICS, list)) <= top_n
          /\ Labels(METRICS, list) \subseteq DOMAIN seen[list]
          /\ \A k \in Labels(METRICS, list) :
               /\ METRICS.gauges[list][k] = seen[list][k]
               /\ \A j \in LeftOut(list) : seen[list][j] <= seen[list][k]

\* a successful pass with top_n = 1 left out a domain and a client with
\* fewer rows than the one listed, and a blocked domain
C38_ListsCut ==
  /\ tpc = "idle" /\ unit.success
  /\ top_n = 1
  /\ \E j \in LeftOut("pihole_top_queries") :
       \E k \in Labels(METRICS, "pihole_top_queries") :
         seen["pihole_top_queries"][j] < seen["pihole_top_queries"][k]
  /\ \E j \in LeftOut("pihole_top_sources") :
       \E k \in Labels(METRICS, "pihole_top_sources") :
         seen["pihole_top_sources"][j] < seen["pihole_top_sources"][k]
  /\ LeftOut("pihole_top_ads") # {}

\* ---- C39 -----------------------------------------------------------------
\* the records main has logged
Logged == {main_log[i] : i \in DOMAIN main_log}

\* C39: when the initial pass has raised, main has logged "Initial scrape
\* failed" and has not ended by that exception; main goes on to start the
\* background loop and then the HTTP server (which binds, or fails for a
\* reason of its own); the server is never started before the loop.
C39_StartupSurvivesFirstPass ==
  /\ [](unit.initial = "raised" =>
          /\ "Initial scrape failed" \in Logged
          /\ unit.aborted_by # "scrape_and_update")
  /\ [](unit.server # "none" => unit.thread = "started")
  /\ (unit.initial = "raised") ~>
        (unit.thread = "started" /\ (unit.server = "bound" \/ unit.aborted_by = "HTTPServer"))

\* the initial pass raised, and the loop has run a pass and the server a
\* request
C39_ServingAfterFailedStart ==
  /\ unit.initial = "raised"
  /\ mpc = "serve_forever"
  /\ unit.loops > 0
  /\ unit.served > 0
  /\ main_log = << "Exporter version", "Starting exporter", "Initial scrape failed",
                   "HTTP server ready" >>

====
